---- MODULE Spec2Model ----
(***************************************************************************)
(* Collision and hull geometry of src/game/physics/components.rs.          *)
(*                                                                         *)
(* Numbers.  The program computes in f32.  The model computes exactly:     *)
(* every input coordinate, size and radius is an integer, box sizes are    *)
(* even (so that size / 2.0 is an integer), and a value the program        *)
(* obtains by a division or a square root is kept as an exact fraction or  *)
(* under its square.  A vector the program normalizes is kept as the       *)
(* record [dir |-> v]: it stands for v / |v|, and for the NaN vector that  *)
(* Vec3::normalize returns when v is the zero vector.  On integer inputs   *)
(* the epsilon tests of the program (x > 1e-6, x <= EPS) are tests         *)
(* against zero, since no quantity they guard lies strictly between 0 and  *)
(* the epsilon.                                                            *)
(***************************************************************************)
EXTENDS Integers, Sequences, FiniteSets, TLC

VARIABLES
    vertices,       \* the [Vec3; 8] handed to Hull::new
    hull,           \* the Hull that Hull::new returned, or NoHull
    segs,           \* the two segments handed to closest_points_between_segments
    closest,        \* its results for (A, B) and for (B, A), or NoClosest
    collider,       \* self of Collider::check_collision
    other,          \* other of Collider::check_collision
    result,         \* what check_collision did, or NoResult
    time,           \* Time: delta_secs and the number of frames run
    world_position, \* the WorldPosition of the Kinematic entity
    physics,        \* its PhysicsData::Kinematic
    controller,     \* its MovementController
    colliders,      \* the other entities' Colliders, in the order of query2
    pc,             \* the system that runs next in the frame
    locals,         \* what the last check_collisions saw, contact by contact
    entities,       \* the components of every entity of a world of several
    schedule,       \* the system that runs in that world and whom it has served
    health,         \* a Health component and the HealthEvent on its way to it
    stamina,        \* a Stamina component, its frame and the StaminaEvent on its way
    player          \* the player's CharacterState, controller, input and commands

movement_vars == <<time, world_position, physics, controller, colliders, pc, locals>>

collision_vars == <<vertices, hull, segs, closest, collider, other, result>>

entity_vars == <<entities, schedule>>

character_vars == <<health, stamina, player>>

game_vars == <<entities, schedule, health, stamina, player>>

vars == <<vertices, hull, segs, closest, collider, other, result,
          time, world_position, physics, controller, colliders, pc, locals,
          entities, schedule, health, stamina, player>>

\* No entity moves
NoMovement ==
    /\ time = [kind |-> "none"]
    /\ world_position = [kind |-> "none"]
    /\ physics = [kind |-> "none"]
    /\ controller = [kind |-> "none"]
    /\ colliders = <<>>
    /\ pc = "none"
    /\ locals = [kind |-> "none"]

\* No world of several entities runs
NoEntities ==
    /\ entities = <<>>
    /\ schedule = [kind |-> "none"]

\* No character has its components
NoHealth == health = [kind |-> "none"]
NoStamina == stamina = [kind |-> "none"]
NoPlayer == player = [kind |-> "none"]
NoCharacter == NoHealth /\ NoStamina /\ NoPlayer

NoGame == NoEntities /\ NoCharacter

----------------------------------------------------------------------------
(* Vec3 *)

Zero == <<0, 0, 0>>
X == <<1, 0, 0>>
Y == <<0, 1, 0>>
Z == <<0, 0, 1>>

Add(a, b) == <<a[1] + b[1], a[2] + b[2], a[3] + b[3]>>
Sub(a, b) == <<a[1] - b[1], a[2] - b[2], a[3] - b[3]>>
Neg(a) == <<-a[1], -a[2], -a[3]>>
Mul(a, k) == <<a[1] * k, a[2] * k, a[3] * k>>
Dot(a, b) == a[1] * b[1] + a[2] * b[2] + a[3] * b[3]
Cross(a, b) ==
    <<a[2] * b[3] - a[3] * b[2],
      a[3] * b[1] - a[1] * b[3],
      a[1] * b[2] - a[2] * b[1]>>
LengthSq(a) == Dot(a, a)

Abs(x) == IF x < 0 THEN -x ELSE x
Min(a, b) == IF a < b THEN a ELSE b
Max(a, b) == IF a > b THEN a ELSE b
\* f32::signum: 1.0 for +0.0 and every positive number, -1.0 for a negative one.
\* A difference of two equal finite numbers is +0.0.
Signum(x) == IF x < 0 THEN -1 ELSE 1
\* f32::clamp
Clamp(x, lo, hi) == IF x < lo THEN lo ELSE IF x > hi THEN hi ELSE x

\* Vec3::normalize: v / |v|, the NaN vector when v is zero.
Normalize(v) == [dir |-> v]
IsNaN(n) == n.dir = Zero
\* n == Vec3::AXIS for a normalized n and a unit axis vector
IsUnit(n, axis) == Dot(n.dir, axis) > 0 /\ Cross(n.dir, axis) = Zero

----------------------------------------------------------------------------
(* Hull::new *)

NoHull == [vertices |-> <<>>, faces |-> <<>>]

compute_normal_swapped(v0, v1, v2) ==
    Normalize(Cross(Sub(v2, v0), Sub(v1, v0)))

compute_normal(v0, v1, v2) ==
    Normalize(Cross(Sub(v1, v0), Sub(v2, v0)))

\* The loop of split_face that keeps the first index of every distinct point.
\* Indices are the program's, from 0; vs[i + 1] is vertices[i].
RECURSIVE dedup(_, _, _, _)
dedup(vs, quad, i, acc) ==
    IF i > Len(quad) THEN acc
    ELSE IF \E j \in 1..Len(acc) : vs[acc[j] + 1] = vs[quad[i] + 1]
         THEN dedup(vs, quad, i + 1, acc)
         ELSE dedup(vs, quad, i + 1, Append(acc, quad[i]))

\* A face that names its second point twice
construct_face_repeat(vs, deduped_indices, face) ==
    [vertices |-> <<deduped_indices[face[1] + 1],
                    deduped_indices[face[2] + 1],
                    deduped_indices[face[2] + 1]>>,
     normal |-> compute_normal(vs[deduped_indices[face[1] + 1] + 1],
                               vs[deduped_indices[face[2] + 1] + 1],
                               vs[deduped_indices[face[3] + 1] + 1])]

construct_face(vs, deduped_indices, face) ==
    [vertices |-> <<deduped_indices[face[1] + 1],
                    deduped_indices[face[2] + 1],
                    deduped_indices[face[3] + 1]>>,
     normal |-> compute_normal(vs[deduped_indices[face[1] + 1] + 1],
                               vs[deduped_indices[face[2] + 1] + 1],
                               vs[deduped_indices[face[3] + 1] + 1])]

split_face(vs, quad) ==
    LET deduped_indices == dedup(vs, quad, 1, <<>>)
        p(k) == vs[deduped_indices[k + 1] + 1]  \* deduped_points[k]
    IN  CASE Len(deduped_indices) = 4 ->
                LET \* 4 * face_center; the sign of the dot product is the same
                    face_center4 == Add(Add(p(0), p(1)), Add(p(2), p(3)))
                    test_normal == compute_normal(p(0), p(3), p(1))
                    \* NaN <= 0.0 is false
                    first == ~IsNaN(test_normal)
                             /\ Dot(test_normal.dir, face_center4) <= 0
                    face1 == IF first THEN <<0, 3, 1>> ELSE <<0, 2, 1>>
                    face2 == IF first THEN <<1, 3, 2>> ELSE <<0, 3, 2>>
                IN  <<construct_face(vs, deduped_indices, face1),
                      construct_face(vs, deduped_indices, face2)>>
          [] Len(deduped_indices) = 3 ->
                <<[vertices |-> <<deduped_indices[1], deduped_indices[2],
                                  deduped_indices[3]>>,
                   normal |-> compute_normal(p(0), p(1), p(2))]>>
          [] OTHER -> <<>>

pos_y == <<7, 6, 5, 4>>
neg_y == <<3, 2, 1, 0>>
pos_x == <<1, 2, 6, 7>>
neg_x == <<0, 4, 5, 3>>
pos_z == <<2, 3, 5, 6>>
neg_z == <<0, 1, 7, 4>>

get_faces(vs) ==
    split_face(vs, pos_y) \o split_face(vs, neg_y)
    \o split_face(vs, pos_x) \o split_face(vs, neg_x)
    \o split_face(vs, pos_z) \o split_face(vs, neg_z)

Hull_new(vs) == [vertices |-> vs, faces |-> get_faces(vs)]

----------------------------------------------------------------------------
(* The hulls handed to Hull::new: a square base of edge e at an offset from *)
(* the local origin, lower ring 0..3 first, then the upper ring 4 (above   *)
(* 0), 5 (above 3), 6 (above 2), 7 (above 1), each upper vertex at its own  *)
(* height above the base (height 0 collapses it onto the lower vertex);    *)
(* and the vertex set of test_sloped_hull.                                 *)

MaxOffset == 1
MaxEdge == 2
MaxHeight == 2

Offsets == {<<x, y, z>> : x \in -MaxOffset..MaxOffset,
                          y \in -MaxOffset..MaxOffset,
                          z \in -MaxOffset..MaxOffset}

\* heights h = <<h4, h5, h6, h7>>
HullPoints(o, e, h) ==
    <<Add(o, <<0, 0, 0>>), Add(o, <<e, 0, 0>>),
      Add(o, <<e, 0, e>>), Add(o, <<0, 0, e>>),
      Add(o, <<0, h[1], 0>>), Add(o, <<0, h[2], e>>),
      Add(o, <<e, h[3], e>>), Add(o, <<e, h[4], 0>>)>>

CubePoints(o, e) == HullPoints(o, e, <<e, e, e, e>>)

\* test_basic_aabb_hull
TestCubePoints == CubePoints(Zero, 1)

\* test_sloped_hull
TestSlopedPoints ==
    <<<<0, 0, 0>>, <<1, 0, 0>>, <<1, 0, 1>>, <<0, 0, 1>>,
      <<0, 1, 0>>, <<0, 1, 1>>, <<0, 0, 0>>, <<0, 0, 0>>>>

Heights == {<<a, b, c, d>> : a \in 0..MaxHeight, b \in 0..MaxHeight,
                             c \in 0..MaxHeight, d \in 0..MaxHeight}

HullInputs ==
    {HullPoints(o, e, h) : o \in Offsets, e \in 1..MaxEdge, h \in Heights}
    \cup {TestSlopedPoints}

EdgeOf(vs) == vs[2][1] - vs[1][1]
HeightsOf(vs) ==
    <<vs[5][2] - vs[1][2], vs[6][2] - vs[1][2],
      vs[7][2] - vs[1][2], vs[8][2] - vs[1][2]>>
IsGenerated(vs) == vs = HullPoints(vs[1], EdgeOf(vs), HeightsOf(vs))

\* The top quad over the square base is planar, so base, top and the four
\* vertical sides bound a convex solid with the vertices in the documented
\* order.
IsConvexInput(vs) ==
    /\ IsGenerated(vs)
    /\ HeightsOf(vs)[1] + HeightsOf(vs)[3] = HeightsOf(vs)[2] + HeightsOf(vs)[4]
    /\ HeightsOf(vs) # <<0, 0, 0, 0>>

IsCubeInput(vs) == vs = CubePoints(vs[1], EdgeOf(vs))

NoSegs == <<>>
NoClosest == <<>>
NoCollider == [kind |-> "none"]
NoResult == [kind |-> "none"]

\* No hull is built, no segments and no colliders are compared
NoCollision ==
    /\ vertices = <<>>
    /\ hull = NoHull
    /\ segs = NoSegs
    /\ closest = NoClosest
    /\ collider = NoCollider
    /\ other = NoCollider
    /\ result = NoResult

InitHull ==
    /\ vertices \in HullInputs
    /\ hull = NoHull
    /\ segs = NoSegs
    /\ closest = NoClosest
    /\ collider = NoCollider
    /\ other = NoCollider
    /\ result = NoResult
    /\ NoMovement
    /\ NoGame

\* Hull::new(vertices)
HullNew ==
    /\ hull = NoHull
    /\ vertices # <<>>
    /\ hull' = Hull_new(vertices)
    /\ UNCHANGED <<vertices, segs, closest, collider, other, result>>
    /\ UNCHANGED movement_vars
    /\ UNCHANGED game_vars

NextHull == HullNew

SpecHull == InitHull /\ [][NextHull]_vars

----------------------------------------------------------------------------
(* closest_points_between_segments.  A parameter along a segment is the    *)
(* fraction [n, d] with d > 0; a point is the fraction [num, den] of an    *)
(* integer vector and a positive integer.                                  *)

RECURSIVE Gcd(_, _)
Gcd(a, b) == IF b = 0 THEN Abs(a) ELSE Gcd(b, a % Abs(b))

\* n / d with the common factor g taken out and the sign in the numerator
FracOver(n, d, g) == [n |-> Signum(d) * (n \div g), d |-> Abs(d) \div g]

\* n / d for d # 0, in lowest terms with a positive denominator
Frac(n, d) == FracOver(n, d, Gcd(n, d))

FracEq(a, b) == Frac(a.n, a.d) = Frac(b.n, b.d)

\* f.clamp(0.0, 1.0)
ClampFrac01(f) ==
    IF f.n < 0 THEN [n |-> 0, d |-> 1]
    ELSE IF f.n > f.d THEN [n |-> 1, d |-> 1]
    ELSE f

\* (n / d).clamp(0.0, 1.0), for d # 0
Clamp01(n, d) == ClampFrac01(Frac(n, d))

\* num / den with the common factor g taken out
PointOver(num, den, g) ==
    [num |-> <<num[1] \div g, num[2] \div g, num[3] \div g>>, den |-> den \div g]

\* a point in lowest terms
Point(num, den) == PointOver(num, den, Gcd(Gcd(num[1], num[2]), Gcd(num[3], den)))

\* start + segment * t
PointAt(start, segment, t) ==
    Point(Add(Mul(start, t.d), Mul(segment, t.n)), t.d)

Pt(v) == [num |-> v, den |-> 1]
\* points in lowest terms are equal when they are the same fraction
PtEq(p, q) == Point(p.num, p.den) = Point(q.num, q.den)
\* |diff|^2 as a fraction
PtLengthSq(diff) == Frac(LengthSq(diff.num), diff.den * diff.den)
\* |p - q|^2 as a fraction
PtDistSq(p, q) ==
    PtLengthSq(Point(Sub(Mul(p.num, q.den), Mul(q.num, p.den)), p.den * q.den))

\* The parameter on segment 1 once segment 2 is left past its end, with the
\* seg_dot term forgotten.
segment_t_past_end_no_dot(seg_dot, segment_to_other, length_sq) ==
    Clamp01(-segment_to_other, length_sq)

\* segment_t of the "Closest point lies after seg2_end" branch
segment_t_past_end(seg_dot, segment_to_other, length_sq) ==
    Clamp01(seg_dot - segment_to_other, length_sq)

closest_points_between_segments(start, end, other_start, other_end) ==
    LET segment == Sub(end, start)
        other_segment == Sub(other_end, other_start)
        start_diff == Sub(start, other_start)
        length_sq == Dot(segment, segment)
        other_length_sq == Dot(other_segment, other_segment)
        other_to_diff == Dot(other_segment, start_diff)
        segment_to_other == Dot(segment, start_diff)
        seg_dot == Dot(segment, other_segment)
        denom == length_sq * other_length_sq - seg_dot * seg_dot
        zero == [n |-> 0, d |-> 1]
        one == [n |-> 1, d |-> 1]
        \* segment_t before segment 2 is looked at
        t1 == IF denom # 0
              THEN Clamp01(seg_dot * other_to_diff
                              - segment_to_other * other_length_sq, denom)
              ELSE zero
        \* proj_on_seg2 = proj.n / proj.d
        proj == [n |-> seg_dot * t1.n + other_to_diff * t1.d, d |-> t1.d]
        ts == CASE length_sq = 0 /\ other_length_sq = 0 -> <<zero, zero>>
                [] length_sq = 0 /\ other_length_sq # 0 ->
                     <<zero, Clamp01(other_to_diff, other_length_sq)>>
                [] length_sq # 0 /\ other_length_sq = 0 ->
                     <<Clamp01(-segment_to_other, length_sq), zero>>
                [] OTHER ->
                     IF proj.n < 0
                     THEN <<Clamp01(-segment_to_other, length_sq), zero>>
                     ELSE IF proj.n > other_length_sq * proj.d
                     THEN <<segment_t_past_end(seg_dot, segment_to_other, length_sq), one>>
                     ELSE <<t1, Frac(proj.n, proj.d * other_length_sq)>>
    IN  <<PointAt(start, segment, ts[1]),
          PointAt(other_start, other_segment, ts[2])>>

MaxSeg == 1

SegPoints == {<<x, y, z>> : x \in -MaxSeg..MaxSeg,
                            y \in -MaxSeg..MaxSeg,
                            z \in -MaxSeg..MaxSeg}

SegEnds == {<<x, y, z>> : x \in 0..MaxSeg, y \in 0..MaxSeg, z \in 0..MaxSeg}

\* Segment A starts at the origin and ends in the non-negative octant, segment
\* B lies anywhere around it: the function reads its inputs only through
\* differences and dot products of points, which a translation or a
\* reflection of both segments leaves alone.
InitSegments ==
    /\ \E e \in SegEnds, s2 \in SegPoints, e2 \in SegPoints :
          segs = <<[start |-> Zero, end |-> e], [start |-> s2, end |-> e2]>>
    /\ closest = NoClosest
    /\ vertices = <<>>
    /\ hull = NoHull
    /\ collider = NoCollider
    /\ other = NoCollider
    /\ result = NoResult
    /\ NoMovement
    /\ NoGame

\* closest_points_between_segments(A, B) and closest_points_between_segments(B, A)
ClosestPoints ==
    /\ segs # NoSegs
    /\ closest = NoClosest
    /\ closest' =
         [ab |-> closest_points_between_segments(
                     segs[1].start, segs[1].end, segs[2].start, segs[2].end),
          ba |-> closest_points_between_segments(
                     segs[2].start, segs[2].end, segs[1].start, segs[1].end)]
    /\ UNCHANGED <<vertices, hull, segs, collider, other, result>>
    /\ UNCHANGED movement_vars
    /\ UNCHANGED game_vars

NextSegments == ClosestPoints

SpecSegments == InitSegments /\ [][NextSegments]_vars

----------------------------------------------------------------------------
(* Collider and its constructors *)

Collider_aabb(size, position) ==
    [kind |-> "Aabb", size |-> size,
     position |-> <<position[1], position[2] + size[2] \div 2, position[3]>>]

Collider_capsule(start, end, radius, position) ==
    [kind |-> "Capsule", start |-> start, end |-> end, radius |-> radius,
     position |-> position]

Collider_sphere(radius, position) ==
    Collider_capsule(Zero, Zero, radius, position)

Collider_vertical_capsule(radius, height, position) ==
    LET h == (IF height < radius * 2 THEN radius * 2 ELSE height) - radius * 2
    IN  Collider_capsule(Mul(Y, radius), Add(Mul(Y, radius), Mul(Y, h)), radius,
                         <<position[1], position[2] + radius, position[3]>>)

Collider_hull(vs, position) ==
    [kind |-> "Hull", hull |-> Hull_new(vs), position |-> position]

----------------------------------------------------------------------------
(* Rough (spherical) collision.  A radius is kept doubled and split as     *)
(* 2 * r = q + sqrt(s) for integers q and s.                               *)

RECURSIVE IsqrtFrom(_, _)
IsqrtFrom(n, k) == IF (k + 1) * (k + 1) > n THEN k ELSE IsqrtFrom(n, k + 1)
\* the largest k with k * k <= n
Isqrt(n) == IsqrtFrom(n, 0)
IsSquare(n) == Isqrt(n) * Isqrt(n) = n

\* sqrt(d) < q + sqrt(a), for q >= 0
LessOneRoot(d, q, a) ==
    LET c == d - q * q - a
    IN  c < 0 \/ c * c < 4 * q * q * a

\* sqrt(d) < q + sqrt(a) + sqrt(b), for q >= 0 and a, b > 0
LessTwoRoots(d, q, a, b) ==
    \/ d <= q * q
    \/ LET c == d + q * q - a - b
           e == c * c - 4 * q * q * d - 4 * a * b
       IN  c < 0 \/ e < 0 \/ e * e < 64 * q * q * d * a * b

\* sqrt(d) < q + sqrt(a) + sqrt(b), decided exactly
SqrtLess(d, q, a, b) ==
    CASE IsSquare(a) /\ IsSquare(b) ->
            d < (q + Isqrt(a) + Isqrt(b)) * (q + Isqrt(a) + Isqrt(b))
      [] IsSquare(a) /\ ~IsSquare(b) -> LessOneRoot(d, q + Isqrt(a), b)
      [] ~IsSquare(a) /\ IsSquare(b) -> LessOneRoot(d, q + Isqrt(b), a)
      [] OTHER -> LessTwoRoots(d, q, a, b)

\* The set of |v|^2 over the vertices that the faces of a hull use
HullFaceVertexLengths(h) ==
    {LengthSq(h.vertices[h.faces[i].vertices[k] + 1]) :
        i \in 1..Len(h.faces), k \in 1..3}

SetMax(S) == CHOOSE m \in S : \A x \in S : x <= m

\* 2 * get_largest_radius() = q + sqrt(s)
get_largest_radius(c) ==
    CASE c.kind = "Aabb" -> [q |-> 0, s |-> LengthSq(c.size)]
      [] c.kind = "Capsule" ->
            [q |-> 2 * c.radius, s |-> LengthSq(Sub(c.start, c.end))]
      [] c.kind = "Hull" ->
            [q |-> 0,
             s |-> IF HullFaceVertexLengths(c.hull) = {} THEN 0
                   ELSE 4 * SetMax(HullFaceVertexLengths(c.hull))]

\* check_collision_rough(...).is_some(): dist < r1 + r2
check_collision_rough(c, o) ==
    LET r1 == get_largest_radius(c)
        r2 == get_largest_radius(o)
    IN  SqrtLess(4 * LengthSq(Sub(c.position, o.position)),
                 r1.q + r2.q, r1.s, r2.s)

----------------------------------------------------------------------------
(* Narrow phase.  A Collision is [kind |-> "Some", normal, depth,          *)
(* position]: normal is a normalized vector [dir |-> v]; depth is          *)
(* [r, dsq], the number r - sqrt(dsq) for an integer r and a fraction      *)
(* dsq; position is a point, or [base, along, times] for the point         *)
(* base + along * times with a normal and a depth.                         *)

None == [kind |-> "None"]
Panic == [kind |-> "Panic"]
Some(normal, depth, position) ==
    [kind |-> "Some", normal |-> normal, depth |-> depth, position |-> position]

FracZero == [n |-> 0, d |-> 1]
Half(v) == <<v[1] \div 2, v[2] \div 2, v[3] \div 2>>

\* The axis itself, whatever the sign of the centre delta
aabb_normal_unsigned(axis, center_diff) ==
    Normalize(axis)

\* Vec3::AXIS * center_diff.axis.signum()
aabb_normal(axis, center_diff) ==
    Normalize(Mul(axis, Signum(Dot(axis, center_diff))))

\* The intervals [min_pos, max_pos] and [min_other_pos, max_other_pos] on
\* axis k, tested on one side only.
aabb_overlap_on_one_side(k, min_pos, max_pos, min_other_pos, max_other_pos) ==
    min_pos[k] <= max_other_pos[k]

\* min_pos.k <= max_other_pos.k && max_pos.k >= min_other_pos.k
aabb_overlap_on(k, min_pos, max_pos, min_other_pos, max_other_pos) ==
    min_pos[k] <= max_other_pos[k] /\ max_pos[k] >= min_other_pos[k]

check_collision_aabb(aabb, position, other_aabb, other_position) ==
    LET min_pos == Sub(position, Half(aabb))
        max_pos == Add(position, Half(aabb))
        min_other_pos == Sub(other_position, Half(other_aabb))
        max_other_pos == Add(other_position, Half(other_aabb))
        center_diff == Sub(position, other_position)
        combined_half_extents == Half(Add(aabb, other_aabb))
        overlaps == <<combined_half_extents[1] - Abs(center_diff[1]),
                      combined_half_extents[2] - Abs(center_diff[2]),
                      combined_half_extents[3] - Abs(center_diff[3])>>
        min_overlap == Min(overlaps[1], Min(overlaps[2], overlaps[3]))
        axis == IF min_overlap = overlaps[1] THEN X
                ELSE IF min_overlap = overlaps[2] THEN Y
                ELSE Z
    IN  IF \A k \in 1..3 :
               aabb_overlap_on(k, min_pos, max_pos, min_other_pos, max_other_pos)
        THEN Some(aabb_normal(axis, center_diff),
                  [r |-> Dot(axis, overlaps), dsq |-> FracZero],
                  Point(Add(position, other_position), 2))
        ELSE None

\* p - q as an integer vector times a positive factor
PtDiffDir(p, q) == Sub(Mul(p.num, q.den), Mul(q.num, p.den))

\* check_collision_capsule once the two closest points are known
capsule_contact(closest_point, closest_point_on_other, distance_sq, combined_radius) ==
    IF distance_sq.n < combined_radius * combined_radius * distance_sq.d
    THEN Some(IF distance_sq.n > 0
              THEN Normalize(PtDiffDir(closest_point, closest_point_on_other))
              ELSE Normalize(Y),
              [r |-> combined_radius, dsq |-> distance_sq],
              Point(Add(Mul(closest_point.num, closest_point_on_other.den),
                        Mul(closest_point_on_other.num, closest_point.den)),
                    2 * closest_point.den * closest_point_on_other.den))
    ELSE None

\* distance of check_collision_capsule, squared
capsule_contact_at(pts, combined_radius) ==
    capsule_contact(pts[1], pts[2], PtDistSq(pts[1], pts[2]), combined_radius)

check_collision_capsule(capsule, position, other_capsule, other_position) ==
    capsule_contact_at(
        closest_points_between_segments(
            Add(capsule.start, position), Add(capsule.end, position),
            Add(other_capsule.start, other_position),
            Add(other_capsule.end, other_position)),
        capsule.radius + other_capsule.radius)

FracLess(a, b) == a.n * b.d < b.n * a.d

\* closest_point_on_aabb; the result keeps the denominator of point
closest_point_on_aabb(point, min, max) ==
    [num |-> <<Clamp(point.num[1], min[1] * point.den, max[1] * point.den),
               Clamp(point.num[2], min[2] * point.den, max[2] * point.den),
               Clamp(point.num[3], min[3] * point.den, max[3] * point.den)>>,
     den |-> point.den]

\* |p - q|^2 for two points of the same denominator
SameDenDistSq(p, q) == [n |-> LengthSq(Sub(p.num, q.num)), d |-> p.den * p.den]

\* "Keep whichever t gives the smallest distance"; best is [nearest_point,
\* smallest_distance], an infinite smallest_distance being [inf |-> TRUE].
capsule_aabb_keep(segment_point, distance_sq, best) ==
    IF best.inf \/ FracLess(distance_sq, best.smallest_distance_sq)
    THEN [nearest_point |-> segment_point, inf |-> FALSE,
          smallest_distance_sq |-> distance_sq]
    ELSE best

\* The candidate of one axis: the point of the segment and its distance to
\* the closest point of the box
capsule_aabb_candidate(segment_point, box_min, box_max, best) ==
    capsule_aabb_keep(
        segment_point,
        SameDenDistSq(segment_point,
                      closest_point_on_aabb(segment_point, box_min, box_max)),
        best)

\* One round of the loop over the axes in closest_point_capsule_aabb
capsule_aabb_axis(axis, capsule_start, segment_dir, box_min, box_max, best) ==
    LET start == capsule_start[axis]
        dir == segment_dir[axis]
        candidate_t ==
            IF start < box_min[axis] THEN Clamp01(box_min[axis] - start, dir)
            ELSE Clamp01(box_max[axis] - start, dir)
    IN  IF dir = 0 THEN best
        ELSE IF start >= box_min[axis] /\ start <= box_max[axis] THEN best
        ELSE capsule_aabb_candidate(
                 PointAt(capsule_start, segment_dir, candidate_t),
                 box_min, box_max, best)

\* "Handle degenerate capsule (start == end)": the value returned
degenerate_capsule_point(capsule_start, box_min, box_max) ==
    closest_point_on_aabb(Pt(capsule_start), box_min, box_max)

closest_point_capsule_aabb(capsule_start, capsule_end, box_min, box_max) ==
    LET segment_dir == Sub(capsule_end, capsule_start)
        b0 == [nearest_point |-> Pt(capsule_start), inf |-> TRUE,
               smallest_distance_sq |-> FracZero]
        b1 == capsule_aabb_axis(1, capsule_start, segment_dir, box_min, box_max, b0)
        b2 == capsule_aabb_axis(2, capsule_start, segment_dir, box_min, box_max, b1)
        b3 == capsule_aabb_axis(3, capsule_start, segment_dir, box_min, box_max, b2)
    IN  IF segment_dir = Zero
        THEN degenerate_capsule_point(capsule_start, box_min, box_max)
        ELSE b3.nearest_point

\* check_collision_aabb_capsule once the two closest points are known
aabb_capsule_contact(radius, aabb_min, aabb_max, closest_point_capsule, closest_point_aabb) ==
    LET distance_sq == SameDenDistSq(closest_point_capsule, closest_point_aabb)
        den == closest_point_aabb.den
        \* (aabb_min + aabb_max) * 0.5 and (aabb_max - aabb_min) * 0.5
        aabb_center == Half(Add(aabb_min, aabb_max))
        aabb_half_size == Half(Sub(aabb_max, aabb_min))
        \* local, dx, dy, dz: each times den
        local == Sub(closest_point_aabb.num, Mul(aabb_center, den))
        dx == aabb_half_size[1] * den - Abs(local[1])
        dy == aabb_half_size[2] * den - Abs(local[2])
        dz == aabb_half_size[3] * den - Abs(local[3])
        normal == IF dx < dy /\ dx < dz THEN <<Signum(local[1]), 0, 0>>
                  ELSE IF dy < dz THEN <<0, Signum(local[2]), 0>>
                  ELSE <<0, 0, Signum(local[3])>>
        depth == [r |-> radius, dsq |-> distance_sq]
    IN  IF distance_sq.n <= radius * radius * distance_sq.d
        THEN Some(Normalize(normal), depth,
                  [base |-> closest_point_capsule, along |-> Normalize(normal),
                   times |-> depth])
        ELSE None

\* closest_point_aabb of check_collision_aabb_capsule
aabb_capsule_contact_at(radius, aabb_min, aabb_max, closest_point_capsule) ==
    aabb_capsule_contact(
        radius, aabb_min, aabb_max, closest_point_capsule,
        closest_point_on_aabb(closest_point_capsule, aabb_min, aabb_max))

check_collision_aabb_capsule(aabb, aabb_position, other_capsule, other_capsule_position) ==
    LET aabb_min == Sub(aabb_position, Half(aabb))
        aabb_max == Add(aabb_position, Half(aabb))
    IN  aabb_capsule_contact_at(
            other_capsule.radius, aabb_min, aabb_max,
            closest_point_capsule_aabb(
                Add(other_capsule.start, other_capsule_position),
                Add(other_capsule.end, other_capsule_position), aabb_min, aabb_max))

\* the same with distance_sq < radius * radius
capsule_aabb_contact_strict(radius, closest_point_capsule, closest_point_aabb) ==
    LET distance_sq == SameDenDistSq(closest_point_capsule, closest_point_aabb)
        normal == Normalize(Sub(closest_point_capsule.num, closest_point_aabb.num))
        depth == [r |-> radius, dsq |-> distance_sq]
    IN  IF distance_sq.n < radius * radius * distance_sq.d
        THEN Some(normal, depth,
                  [base |-> closest_point_aabb, along |-> normal, times |-> depth])
        ELSE None

\* check_collision_capsule_aabb once the two closest points are known
capsule_aabb_contact(radius, closest_point_capsule, closest_point_aabb) ==
    LET distance_sq == SameDenDistSq(closest_point_capsule, closest_point_aabb)
        normal == Normalize(Sub(closest_point_capsule.num, closest_point_aabb.num))
        depth == [r |-> radius, dsq |-> distance_sq]
    IN  IF distance_sq.n <= radius * radius * distance_sq.d
        THEN Some(normal, depth,
                  [base |-> closest_point_aabb, along |-> normal, times |-> depth])
        ELSE None

\* closest_point_aabb of check_collision_capsule_aabb
capsule_aabb_contact_at(radius, aabb_min, aabb_max, closest_point_capsule) ==
    capsule_aabb_contact(
        radius, closest_point_capsule,
        closest_point_on_aabb(closest_point_capsule, aabb_min, aabb_max))

check_collision_capsule_aabb(capsule, capsule_position, other_aabb, other_aabb_position) ==
    LET aabb_min == Sub(other_aabb_position, Half(other_aabb))
        aabb_max == Add(other_aabb_position, Half(other_aabb))
    IN  capsule_aabb_contact_at(
            capsule.radius, aabb_min, aabb_max,
            closest_point_capsule_aabb(
                Add(capsule.start, capsule_position),
                Add(capsule.end, capsule_position), aabb_min, aabb_max))

\* A point whose coordinates are NaN
NaNPoint == [num |-> Zero, den |-> 0]
PtIsNaN(p) == p.den = 0

\* vertex + edge * (n / d); NaN for 0 / 0
EdgePoint(vertex, edge, n, d) ==
    IF d = 0 THEN NaNPoint ELSE PointAt(vertex, edge, Frac(n, d))

\* The dot products below are the program's times point.den.
closest_point_on_triangle(point, vertex_a, vertex_b, vertex_c) ==
    LET edge_ab == Sub(vertex_b, vertex_a)
        edge_ac == Sub(vertex_c, vertex_a)
        edge_bc == Sub(vertex_c, vertex_b)
        vector_to_a == Sub(point.num, Mul(vertex_a, point.den))
        vector_to_b == Sub(point.num, Mul(vertex_b, point.den))
        vector_to_c == Sub(point.num, Mul(vertex_c, point.den))
        dot_ab_ap == Dot(edge_ab, vector_to_a)
        dot_ac_ap == Dot(edge_ac, vector_to_a)
        dot_ab_bp == Dot(edge_ab, vector_to_b)
        dot_ac_bp == Dot(edge_ac, vector_to_b)
        dot_ab_cp == Dot(edge_ab, vector_to_c)
        dot_ac_cp == Dot(edge_ac, vector_to_c)
        edge_region_ab == dot_ab_ap * dot_ac_bp - dot_ab_bp * dot_ac_ap
        edge_region_ac == dot_ab_cp * dot_ac_ap - dot_ab_ap * dot_ac_cp
        edge_region_bc == dot_ab_bp * dot_ac_cp - dot_ab_cp * dot_ac_bp
        sum_of_regions == edge_region_ab + edge_region_ac + edge_region_bc
    IN  CASE dot_ab_ap <= 0 /\ dot_ac_ap <= 0 -> Pt(vertex_a)
          [] dot_ab_bp >= 0 /\ dot_ac_bp <= dot_ab_bp -> Pt(vertex_b)
          [] dot_ac_cp >= 0 /\ dot_ab_cp <= dot_ac_cp -> Pt(vertex_c)
          [] edge_region_ab <= 0 /\ dot_ab_ap >= 0 /\ dot_ab_bp <= 0 ->
                EdgePoint(vertex_a, edge_ab, dot_ab_ap, dot_ab_ap - dot_ab_bp)
          [] edge_region_ac <= 0 /\ dot_ac_ap >= 0 /\ dot_ac_cp <= 0 ->
                EdgePoint(vertex_a, edge_ac, dot_ac_ap, dot_ac_ap - dot_ac_cp)
          [] /\ edge_region_bc <= 0
             /\ dot_ac_bp - dot_ab_bp >= 0
             /\ dot_ab_cp - dot_ac_cp >= 0 ->
                EdgePoint(vertex_b, edge_bc, dot_ac_bp - dot_ab_bp,
                          (dot_ac_bp - dot_ab_bp) + (dot_ab_cp - dot_ac_cp))
          [] OTHER ->
                IF sum_of_regions = 0 THEN NaNPoint
                ELSE Point(Mul(Add(Add(Mul(vertex_a, sum_of_regions),
                                       Mul(edge_ab, edge_region_ac)),
                                   Mul(edge_ac, edge_region_ab)),
                               Signum(sum_of_regions)),
                           Abs(sum_of_regions))

\* One round of the loop over the faces in check_collision_capsule_hull; best
\* is [closest_point, min_distance_sq, collision_normal], an infinite
\* min_distance_sq being [inf |-> TRUE].
capsule_hull_face(face, seg_start, seg_end, hull_vertices, best) ==
    LET v0 == hull_vertices[face.vertices[1] + 1]
        v1 == hull_vertices[face.vertices[2] + 1]
        v2 == hull_vertices[face.vertices[3] + 1]
        plane_normal == face.normal
        \* the program's distances times |plane_normal.dir|
        start_dist == Dot(Sub(seg_start, v0), plane_normal.dir)
        end_dist == Dot(Sub(seg_end, v0), plane_normal.dir)
        \* t.clamp(0.0, 1.0); x / 0.0 is +inf or -inf by the sign of x
        t_clamped == IF start_dist = end_dist
                     THEN (IF start_dist > 0 THEN [n |-> 1, d |-> 1] ELSE FracZero)
                     ELSE Clamp01(start_dist, start_dist - end_dist)
        point_on_segment == PointAt(seg_start, Sub(seg_end, seg_start), t_clamped)
        point_on_triangle == closest_point_on_triangle(point_on_segment, v0, v1, v2)
        dist_sq == PtDistSq(point_on_segment, point_on_triangle)
        \* a NaN normal, or 0.0 / 0.0, makes dist_sq NaN, and NaN < x is false
        is_nan == \/ IsNaN(plane_normal)
                  \/ (start_dist = end_dist /\ start_dist = 0)
                  \/ PtIsNaN(point_on_triangle)
    IN  IF is_nan THEN best
        ELSE IF best.inf \/ FracLess(dist_sq, best.min_distance_sq)
             THEN [closest_point |-> point_on_segment, inf |-> FALSE,
                   min_distance_sq |-> dist_sq,
                   collision_normal |->
                       IF dist_sq.n > 0
                       THEN Normalize(PtDiffDir(point_on_segment, point_on_triangle))
                       ELSE plane_normal]
             ELSE best

RECURSIVE capsule_hull_faces(_, _, _, _, _, _)
capsule_hull_faces(faces, i, seg_start, seg_end, hull_vertices, best) ==
    IF i > Len(faces) THEN best
    ELSE capsule_hull_faces(faces, i + 1, seg_start, seg_end, hull_vertices,
             capsule_hull_face(faces[i], seg_start, seg_end, hull_vertices, best))

check_collision_capsule_hull(capsule, capsule_position, h, hull_position) ==
    LET seg_start == Add(capsule.start, capsule_position)
        seg_end == Add(capsule.end, capsule_position)
        hull_vertices == [i \in 1..Len(h.vertices) |->
                             Add(h.vertices[i], hull_position)]
        best == capsule_hull_faces(h.faces, 1, seg_start, seg_end, hull_vertices,
                    [closest_point |-> Pt(seg_start), inf |-> TRUE,
                     min_distance_sq |-> FracZero,
                     collision_normal |-> Normalize(Zero)])
        depth == [r |-> capsule.radius, dsq |-> best.min_distance_sq]
    IN  IF /\ ~best.inf
           /\ best.min_distance_sq.n
                  < capsule.radius * capsule.radius * best.min_distance_sq.d
        THEN Some(best.collision_normal, depth,
                  [base |-> best.closest_point, along |-> best.collision_normal,
                   times |-> depth])
        ELSE None

\* project: the least and the greatest dot product of the vertices with axis
project(vs, axis) ==
    LET dots == {Dot(vs[i], axis) : i \in 1..Len(vs)}
    IN  [min |-> CHOOSE m \in dots : \A x \in dots : m <= x, max |-> SetMax(dots)]

aabb_vertices(aabb, aabb_position) ==
    LET half == Half(aabb)
    IN  <<Add(aabb_position, <<-half[1], -half[2], -half[3]>>),
          Add(aabb_position, <<half[1], -half[2], -half[3]>>),
          Add(aabb_position, <<half[1], -half[2], half[3]>>),
          Add(aabb_position, <<-half[1], -half[2], half[3]>>),
          Add(aabb_position, <<-half[1], half[2], -half[3]>>),
          Add(aabb_position, <<half[1], half[2], -half[3]>>),
          Add(aabb_position, <<half[1], half[2], half[3]>>),
          Add(aabb_position, <<-half[1], half[2], half[3]>>)>>

\* The axes check_collision_aabb_hull tests: X, Y, Z and every face normal
aabb_hull_axes(h) ==
    <<Normalize(X), Normalize(Y), Normalize(Z)>>
    \o [i \in 1..Len(h.faces) |-> h.faces[i].normal]

\* overlap <= 0.0 on the axis, the overlap being the program's times
\* |axis.dir|; on a NaN axis the overlap is NaN and the test is false
aabb_hull_separated_on(axis, aabb, aabb_position, h, hull_position) ==
    LET a == project(aabb_vertices(aabb, aabb_position), axis.dir)
        b == project([i \in 1..Len(h.vertices) |->
                         Add(h.vertices[i], hull_position)], axis.dir)
        overlap == Min(a.max, b.max) - Max(a.min, b.min)
    IN  ~IsNaN(axis) /\ overlap <= 0

\* check_collision_aabb_hull returns None at "Found separating axis"
aabb_hull_separated(aabb, aabb_position, h, hull_position) ==
    \E i \in 1..Len(aabb_hull_axes(h)) :
        aabb_hull_separated_on(aabb_hull_axes(h)[i], aabb, aabb_position,
                               h, hull_position)

\* The match of check_collision on the two shapes
narrow_phase(c, o) ==
    CASE c.kind = "Aabb" /\ o.kind = "Aabb" ->
            check_collision_aabb(c.size, c.position, o.size, o.position)
      [] c.kind = "Capsule" /\ o.kind = "Capsule" ->
            check_collision_capsule(c, c.position, o, o.position)
      [] c.kind = "Aabb" /\ o.kind = "Capsule" ->
            check_collision_aabb_capsule(c.size, c.position, o, o.position)
      [] c.kind = "Capsule" /\ o.kind = "Aabb" ->
            check_collision_capsule_aabb(c, c.position, o.size, o.position)
      [] c.kind = "Aabb" /\ o.kind = "Hull" -> None
      [] c.kind = "Capsule" /\ o.kind = "Hull" ->
            check_collision_capsule_hull(c, c.position, o.hull, o.position)
      \* unreachable!("Attempted collision check with hull as source")
      [] c.kind = "Hull" -> Panic

\* Collider::check_collision
check_collision(c, o) ==
    IF ~check_collision_rough(c, o) THEN None ELSE narrow_phase(c, o)

----------------------------------------------------------------------------
(* The colliders checked against each other: self is built at the origin,  *)
(* other anywhere within MaxPos of it.                                     *)

MaxPos == 3

Positions == {<<x, y, z>> : x \in -MaxPos..MaxPos,
                            y \in -MaxPos..MaxPos,
                            z \in -MaxPos..MaxPos}

\* a wedge: the upper vertices 6 and 7 collapsed onto 2 and 1
WedgePoints == HullPoints(<<-1, -1, -1>>, 2, <<2, 2, 0, 0>>)

\* <<radius, height>> of the vertical capsules
VerticalCapsules == {<<1, 1>>, <<1, 4>>, <<2, 6>>}

CollidersAt(position) ==
    {Collider_aabb(size, position) :
        size \in {<<2, 2, 2>>, <<4, 4, 4>>, <<4, 2, 6>>}}
    \cup {Collider_sphere(radius, position) : radius \in {1, 2}}
    \cup {Collider_vertical_capsule(c[1], c[2], position) : c \in VerticalCapsules}
    \cup {Collider_capsule(<<-1, 0, 0>>, <<1, 0, 0>>, 1, position)}
    \cup {Collider_capsule(<<-2, -2, 0>>, <<2, 2, 0>>, 3, position)}
    \cup {Collider_hull(vs, position) :
            vs \in {CubePoints(Zero, 2), CubePoints(<<-1, -1, -1>>, 2), WedgePoints}}

Init ==
    /\ collider \in CollidersAt(Zero)
    /\ \E position \in Positions : other \in CollidersAt(position)
    /\ result = NoResult
    /\ NoMovement
    /\ NoGame
    /\ vertices = <<>>
    /\ hull = NoHull
    /\ segs = NoSegs
    /\ closest = NoClosest

\* collider.check_collision(other)
CheckCollision ==
    /\ collider # NoCollider
    /\ result = NoResult
    /\ result' = check_collision(collider, other)
    /\ UNCHANGED <<vertices, hull, segs, closest, collider, other>>
    /\ UNCHANGED movement_vars
    /\ UNCHANGED game_vars

Next == CheckCollision

Spec == Init /\ [][Next]_vars

----------------------------------------------------------------------------
(* Claims about Hull::new *)

Axes == {X, Neg(X), Y, Neg(Y), Z, Neg(Z)}

FacesWith(h, axis) == {i \in 1..Len(h.faces) : IsUnit(h.faces[i].normal, axis)}

\* C4: the hull built from the vertex set of test_sloped_hull has no face
\* with normal +X, exactly one with normal +Z, exactly one with normal -Z,
\* and 8 faces in all.
C4_SlopedHullFaces ==
    (hull # NoHull /\ vertices = TestSlopedPoints) =>
        /\ Cardinality(FacesWith(hull, X)) = 0
        /\ Cardinality(FacesWith(hull, Z)) = 1
        /\ Cardinality(FacesWith(hull, Neg(Z))) = 1
        /\ Len(hull.faces) = 8

\* The corners of the cube side that faces along axis: the vertices farthest
\* along it.
SideCorners(vs, axis) ==
    {i \in 0..7 : \A j \in 0..7 : Dot(vs[i + 1], axis) >= Dot(vs[j + 1], axis)}

FaceVertexSet(f) == {f.vertices[1], f.vertices[2], f.vertices[3]}

\* C5: a cube given in the documented order keeps its 8 vertices and gets
\* exactly 12 triangles, 2 for each of +X, -X, +Y, -Y, +Z, -Z; every normal
\* is one of the 6 unit axis vectors, and the two triangles of a direction
\* cover the four corners of that side of the cube.
C5_CubeHullFaces ==
    (hull # NoHull /\ IsCubeInput(vertices)) =>
        /\ Len(hull.vertices) = 8
        /\ Len(hull.faces) = 12
        /\ \A i \in 1..Len(hull.faces) :
              \E axis \in Axes : IsUnit(hull.faces[i].normal, axis)
        /\ \A axis \in Axes :
              /\ Cardinality(FacesWith(hull, axis)) = 2
              /\ UNION {FaceVertexSet(hull.faces[i]) : i \in FacesWith(hull, axis)}
                     = SideCorners(vertices, axis)

C5_Witness ==
    /\ hull # NoHull
    /\ vertices = TestCubePoints
    /\ Len(hull.faces) = 12

\* 8 * centroid of the hull's vertices
Centroid8(vs) ==
    Add(Add(Add(vs[1], vs[2]), Add(vs[3], vs[4])),
        Add(Add(vs[5], vs[6]), Add(vs[7], vs[8])))

\* The normal of face f has a non-positive dot product with the vector from
\* each vertex of f to the centroid (a NaN normal has not).
PointsOutward(h, f) ==
    /\ ~IsNaN(f.normal)
    /\ \A k \in 1..3 :
          Dot(f.normal.dir,
              Sub(Centroid8(h.vertices), Mul(h.vertices[f.vertices[k] + 1], 8))) <= 0

\* C6: every face normal of a convex hull given in the documented order
\* points outward, with or without collapsed corners and wherever the hull
\* lies relative to the local origin.
C6_NormalsOutward ==
    (hull # NoHull /\ IsConvexInput(vertices)) =>
        \A i \in 1..Len(hull.faces) : PointsOutward(hull, hull.faces[i])

----------------------------------------------------------------------------
(* Claims about closest_points_between_segments *)

SegDir(k) == Sub(segs[k].end, segs[k].start)
Parallel == /\ SegDir(1) # Zero
            /\ SegDir(2) # Zero
            /\ Cross(SegDir(1), SegDir(2)) = Zero

Swapped == /\ PtEq(closest.ab[1], closest.ba[2])
           /\ PtEq(closest.ab[2], closest.ba[1])

----------------------------------------------------------------------------
(* Claims about Collider::check_collision *)

Checked == result # NoResult

\* C1: check_collision is total over the 3x3 matrix of shape pairs: it
\* returns a contact or None and never panics, and with a Hull as self it
\* returns None, also when the rough check lets the pair through.
C1_Total ==
    Checked =>
        /\ result.kind \in {"Some", "None"}
        /\ collider.kind = "Hull" => result.kind = "None"

IsSegmentCapsule(c) == c.kind = "Capsule" /\ c.start # c.end

\* C2: the rough check only rejects pairs that the narrow phase, on the same
\* inputs, reports as not colliding.  Stated for the pairs the claim names,
\* boxes and capsules with a segment of non-zero length.
C2_RoughRejectIsSafe ==
    (/\ Checked
     /\ collider.kind = "Aabb" \/ IsSegmentCapsule(collider)
     /\ other.kind = "Aabb" \/ IsSegmentCapsule(other)
     /\ ~check_collision_rough(collider, other)) =>
        narrow_phase(collider, other).kind # "Some"

\* The squared distance from a point to a box
DistSqToBox(point, box) ==
    LET gap(k) == Max(0, Abs(point[k] - box.position[k]) - box.size[k] \div 2)
    IN  gap(1) * gap(1) + gap(2) * gap(2) + gap(3) * gap(3)

\* C3: a capsule with a segment of zero length, as Collider::sphere and
\* vertical_capsule with height <= 2 * radius build it, behaves as a sphere:
\* against a box, check_collision reports a contact exactly when the
\* distance from the sphere's centre to the box is at most the radius.
C3_DegenerateCapsuleIsSphere ==
    (/\ Checked
     /\ collider.kind = "Capsule" /\ collider.start = collider.end
     /\ other.kind = "Aabb") =>
        (result.kind = "Some"
            <=> DistSqToBox(Add(collider.start, collider.position), other)
                    <= collider.radius * collider.radius)

\* C8: for a Box against a Hull, check_collision reports a contact exactly
\* when none of the tested axes (X, Y, Z and the hull's face normals) has a
\* zero or negative overlap of the two projections.
C8_BoxHullSat ==
    (Checked /\ collider.kind = "Aabb" /\ other.kind = "Hull") =>
        (result.kind = "Some"
            <=> ~aabb_hull_separated(collider.size, collider.position,
                                     other.hull, other.position))

CapsuleStart(c) == Add(c.start, c.position)
CapsuleEnd(c) == Add(c.end, c.position)
BoxMin(c) == Sub(c.position, Half(c.size))
BoxMax(c) == Add(c.position, Half(c.size))

\* The vector from A's centre or nearest point to B's centre or nearest
\* point, times a positive factor: centre to centre for two boxes, between
\* the closest points of the two segments for two capsules, from the
\* capsule's nearest point to the box's for Capsule-Box, and from the box's
\* centre to the capsule's nearest point for Box-Capsule.
FromAToB(c, o) ==
    CASE c.kind = "Aabb" /\ o.kind = "Aabb" -> Sub(o.position, c.position)
      [] c.kind = "Capsule" /\ o.kind = "Capsule" ->
            LET pts == closest_points_between_segments(
                           CapsuleStart(c), CapsuleEnd(c),
                           CapsuleStart(o), CapsuleEnd(o))
            IN  PtDiffDir(pts[2], pts[1])
      [] c.kind = "Capsule" /\ o.kind = "Aabb" ->
            LET capsule_point == closest_point_capsule_aabb(
                          CapsuleStart(c), CapsuleEnd(c), BoxMin(o), BoxMax(o))
            IN  PtDiffDir(closest_point_on_aabb(capsule_point, BoxMin(o), BoxMax(o)), capsule_point)
      [] c.kind = "Aabb" /\ o.kind = "Capsule" ->
            PtDiffDir(closest_point_capsule_aabb(
                          CapsuleStart(o), CapsuleEnd(o), BoxMin(c), BoxMax(c)),
                      Pt(c.position))

\* C9: the normal of every contact that check_collision(A, B) returns points
\* from A (self) toward B (other).  Stated for the pairs of boxes and
\* capsules, and for the normals that are not NaN.
C9_NormalFromAToB ==
    (/\ Checked /\ result.kind = "Some"
     /\ collider.kind \in {"Aabb", "Capsule"}
     /\ other.kind \in {"Aabb", "Capsule"}
     /\ ~IsNaN(result.normal)) =>
        Dot(result.normal.dir, FromAToB(collider, other)) >= 0

\* C10: every contact that check_collision returns has a normal of unit
\* length, never the NaN vector that normalizing a zero vector gives.
C10_NormalIsUnit ==
    (Checked /\ result.kind = "Some") => ~IsNaN(result.normal)

\* C11: two boxes that do not overlap get None: a Box-Box contact is returned
\* only when the extents of the two boxes overlap or touch on all three
\* axes, so never when the sum of the half-extents is less than the distance
\* of the centres on some axis.
C11_BoxesApartGetNone ==
    (Checked /\ collider.kind = "Aabb" /\ other.kind = "Aabb"
             /\ result.kind = "Some") =>
        \A k \in 1..3 :
            2 * Abs(collider.position[k] - other.position[k])
                <= collider.size[k] + other.size[k]

\* Two boxes that the rough check lets through and that are apart on one
\* axis only
C11_Witness ==
    /\ Checked /\ collider.kind = "Aabb" /\ other.kind = "Aabb"
    /\ check_collision_rough(collider, other)
    /\ result.kind = "None"
    /\ Cardinality({k \in 1..3 :
            2 * Abs(collider.position[k] - other.position[k])
                > collider.size[k] + other.size[k]}) = 1

\* C12: vertical_capsule builds a segment of length
\* max(height, 2 * radius) - 2 * radius, and the lowest point of the capsule
\* (the segment's start minus the radius, in world space) is at the y of the
\* position passed to the constructor, here the origin.
C12_VerticalCapsuleBottom ==
    \A c \in VerticalCapsules :
        collider = Collider_vertical_capsule(c[1], c[2], Zero) =>
            /\ collider.end[2] - collider.start[2]
                   = Max(c[2], 2 * c[1]) - 2 * c[1]
            /\ collider.start[2] + collider.position[2] - collider.radius = Zero[2]

\* The penetrations dx, dy, dz of check_collision_aabb_capsule, each times
\* the denominator of the contact point
BoxCapsulePenetration(c, o) ==
    LET point == closest_point_on_aabb(
                     closest_point_capsule_aabb(
                         CapsuleStart(o), CapsuleEnd(o), BoxMin(c), BoxMax(c)),
                     BoxMin(c), BoxMax(c))
    IN  [k \in 1..3 |->
            (c.size[k] \div 2) * point.den
                - Abs(point.num[k] - c.position[k] * point.den)]

AlongAxis(n, k) == ~IsNaN(n) /\ n.dir[k] # 0 /\ \A j \in 1..3 \ {k} : n.dir[j] = 0

\* C20: the Box-Capsule normal is along the box axis of least penetration,
\* ties going to X, then Y, then Z: along X when the X and Y penetrations are
\* equal and least, along Y when the Y and Z penetrations are equal and
\* least and X is larger.
C20_BoxCapsuleTies ==
    (Checked /\ collider.kind = "Aabb" /\ other.kind = "Capsule"
             /\ result.kind = "Some") =>
        LET d == BoxCapsulePenetration(collider, other)
        IN  /\ (d[1] = d[2] /\ d[1] <= d[3]) => AlongAxis(result.normal, 1)
            /\ (d[2] = d[3] /\ d[2] < d[1]) => AlongAxis(result.normal, 2)

----------------------------------------------------------------------------
(* Kinematic movement.  Lengths are counted in units of 0.03 m, so that    *)
(* STEP_UP_HEIGHT is 10 units and every probe height is a whole number of  *)
(* units; times are fractions of a second.  A displacement is a point      *)
(* [num, den].                                                             *)

\* const GRAVITY: f32 = 1.0, in units per second
GRAVITY == [n |-> 100, d |-> 3]
\* const STEP_UP_HEIGHT: f32 = 0.3, in units
STEP_UP_HEIGHT == 10

FracMul(a, b) == Frac(a.n * b.n, a.d * b.d)
FracAdd(a, b) == Frac(a.n * b.d + b.n * a.d, a.d * b.d)
PtAdd(p, q) == Point(Add(Mul(p.num, q.den), Mul(q.num, p.den)), p.den * q.den)
PtSub(p, q) == Point(Sub(Mul(p.num, q.den), Mul(q.num, p.den)), p.den * q.den)
\* the vector v times the fraction f
PtScale(v, f) == Point(Mul(v, f.n), f.d)
PtX(p) == Frac(p.num[1], p.den)
PtY(p) == Frac(p.num[2], p.den)
PtZ(p) == Frac(p.num[3], p.den)
\* the point (x, y, z) of three fractions
PtOf(x, y, z) == Point(<<x.n * y.d * z.d, y.n * x.d * z.d, z.n * x.d * y.d>>, x.d * y.d * z.d)

\* f32::INFINITY
INFINITY == [n |-> 1, d |-> 0]
IsInfinite(f) == f.d = 0

\* PhysicsData::kinematic
PhysicsData_kinematic(displacement) ==
    [displacement |-> displacement, grounded |-> FALSE,
     time_since_grounded |-> INFINITY, last_grounded_height |-> FracZero]

\* set_intended_velocity: the displacement it leaves
set_intended_velocity_of(displacement, intent) ==
    PtOf(PtX(intent), FracAdd(PtY(displacement), PtY(intent)), PtZ(intent))

\* controller.intent * controller.max_speed * time.delta_secs()
intended(mc, delta_secs) == PtScale(mc.intent, FracMul(mc.max_speed, delta_secs))

\* displacement.y -= GRAVITY * time.delta_secs()
apply_gravity(displacement, delta_secs) ==
    PtSub(displacement, PtScale(Y, FracMul(GRAVITY, delta_secs)))

\* collision.normal.y > 0.0
normal_y_above_zero(normal) == normal.dir[2] > 0

\* collision.normal.y > 0.7; false for a NaN normal
normal_y_above(normal) ==
    normal.dir[2] > 0 /\ 100 * normal.dir[2] * normal.dir[2] > 49 * LengthSq(normal.dir)

\* collision.normal.y.abs() < 0.7; false for a NaN normal
is_horizontal(normal) ==
    ~IsNaN(normal) /\ 100 * normal.dir[2] * normal.dir[2] < 49 * LengthSq(normal.dir)

\* velocity_along_normal < 0.0 taken as never true
moves_into_never(displacement, normal) == FALSE

\* velocity_along_normal < 0.0; false for a NaN normal
moves_into(displacement, normal) == Dot(displacement.num, normal.dir) < 0

\* *displacement -= collision.normal * velocity_along_normal * 2.0
block_twice(displacement, normal) ==
    Point(Sub(Mul(displacement.num, LengthSq(normal.dir)),
              Mul(normal.dir, 2 * Dot(displacement.num, normal.dir))),
          displacement.den * LengthSq(normal.dir))

\* *displacement -= collision.normal * velocity_along_normal
block(displacement, normal) ==
    Point(Sub(Mul(displacement.num, LengthSq(normal.dir)),
              Mul(normal.dir, Dot(displacement.num, normal.dir))),
          displacement.den * LengthSq(normal.dir))

\* query2: the entity's own collider and those of the other entities
query2(own, others) ==
    <<[entity |-> 0, collider |-> own]>>
    \o [i \in 1..Len(others) |-> [entity |-> i, collider |-> others[i]]]

\* test_height as f32 * (STEP_UP_HEIGHT / 10.0)
test_step(test_height) == Frac(test_height * STEP_UP_HEIGHT, 10)

\* test_collider: the entity's collider rebuilt at
\* current_position + Vec3::Y * test_step
test_collider(own, current_position, height) ==
    [own EXCEPT !.position = Add(current_position, Mul(Y, height.n \div height.d))]

\* still_colliding without the filter on the entity itself
still_colliding_with_self(probe, entity, query) ==
    \E i \in 1..Len(query) : check_collision(probe, query[i].collider).kind = "Some"

\* still_colliding
still_colliding(probe, entity, query) ==
    \E i \in 1..Len(query) :
        /\ query[i].entity # entity
        /\ check_collision(probe, query[i].collider).kind = "Some"

\* for test_height in 1..=10: the first height that is free, 0 when none is
RECURSIVE find_step_height(_, _, _, _)
find_step_height(test_height, own, current_position, query) ==
    IF test_height > 10 THEN 0
    ELSE IF ~still_colliding(test_collider(own, current_position, test_step(test_height)), 0, query)
    THEN test_height
    ELSE find_step_height(test_height + 1, own, current_position, query)

\* displacement.y = displacement.y.max(test_step * time.delta_secs())
lift(displacement, height) ==
    IF FracLess(PtY(displacement), height)
    THEN PtOf(PtX(displacement), height, PtZ(displacement))
    ELSE displacement

\* the branch taken when the wall contact may be stepped over
step_up_or_block(displacement, normal, found, delta_secs) ==
    IF found > 0
    THEN [displacement |-> lift(displacement, FracMul(test_step(found), delta_secs)),
          step_up |-> "found", test_height |-> found]
    ELSE [displacement |-> block(displacement, normal),
          step_up |-> "blocked", test_height |-> 0]

\* the body of `for collision in collisions` once grounded is updated
contact_response(displacement, grounded, normal, own, current_position, query, delta_secs) ==
    IF is_horizontal(normal) /\ moves_into(displacement, normal) /\ grounded
    THEN step_up_or_block(displacement, normal,
                          find_step_height(1, own, current_position, query), delta_secs)
    ELSE IF moves_into(displacement, normal)
    THEN [displacement |-> block(displacement, normal),
          step_up |-> "none", test_height |-> 0]
    ELSE [displacement |-> displacement, step_up |-> "none", test_height |-> 0]

\* what one pass of the loop saw and did
contact_entry(normal, before, grounded_before, grounded, response) ==
    [normal |-> normal, before |-> before, after |-> response.displacement,
     grounded_before |-> grounded_before, grounded |-> grounded,
     step_up |-> response.step_up, test_height |-> response.test_height]

\* if collision.normal.y > 0.7 { grounded = true; }
grounded_after(grounded, normal) == grounded \/ normal_y_above(normal)

\* for collision in collisions, from the i-th on
RECURSIVE resolve_collisions(_, _, _, _, _, _, _)
resolve_collisions(collisions, i, contacts, own, current_position, query, delta_secs) ==
    IF i > Len(collisions) THEN contacts
    ELSE resolve_collisions(
            collisions, i + 1,
            Append(contacts,
                   contact_entry(
                       collisions[i].normal,
                       contacts[Len(contacts)].after,
                       contacts[Len(contacts)].grounded,
                       grounded_after(contacts[Len(contacts)].grounded, collisions[i].normal),
                       contact_response(
                           contacts[Len(contacts)].after,
                           grounded_after(contacts[Len(contacts)].grounded, collisions[i].normal),
                           collisions[i].normal, own, current_position, query, delta_secs))),
            own, current_position, query, delta_secs)

\* what stands before the loop: displacement after gravity, grounded = false
before_loop(displacement) ==
    [normal |-> Normalize(Zero), before |-> displacement, after |-> displacement,
     grounded_before |-> FALSE, grounded |-> FALSE,
     step_up |-> "none", test_height |-> 0]

\* the collisions of the entity, in the order of query2
RECURSIVE collisions_of(_, _, _)
collisions_of(own, query, i) ==
    IF i > Len(query) THEN <<>>
    ELSE IF query[i].entity = 0 \/ check_collision(own, query[i].collider).kind # "Some"
    THEN collisions_of(own, query, i + 1)
    ELSE <<check_collision(own, query[i].collider)>> \o collisions_of(own, query, i + 1)

\* Step 5 of the solver: grounded, time_since_grounded and
\* last_grounded_height after a tick in which `grounded` was found
grounded_state(data, grounded, height, delta_secs) ==
    IF grounded
    THEN [data EXCEPT !.grounded = TRUE, !.time_since_grounded = FracZero,
                      !.last_grounded_height = height]
    ELSE [data EXCEPT !.grounded = FALSE,
                      !.time_since_grounded =
                          IF IsInfinite(@) THEN @ ELSE FracAdd(@, delta_secs)]

\* a.y < b.y for two normals with positive y
steeper(a, b) ==
    a.dir[2] * a.dir[2] * LengthSq(b.dir) < b.dir[2] * b.dir[2] * LengthSq(a.dir)

\* Step 3 of the solver: the steepest ground-like normal seen this tick,
\* Normalize(Zero) when there is none
RECURSIVE ground_normal_of(_, _, _)
ground_normal_of(collisions, i, best) ==
    IF i > Len(collisions) THEN best
    ELSE IF normal_y_above(collisions[i].normal)
            /\ (IsNaN(best) \/ steeper(collisions[i].normal, best))
    THEN ground_normal_of(collisions, i + 1, collisions[i].normal)
    ELSE ground_normal_of(collisions, i + 1, best)

\* the angle of the normal from vertical is below 45 degrees
is_stable_slope(normal) ==
    normal.dir[2] > 0 /\ 2 * normal.dir[2] * normal.dir[2] > LengthSq(normal.dir)

\* the part of the vector perpendicular to the normal
tangential(vector, normal) ==
    Point(Sub(Mul(vector.num, LengthSq(normal.dir)),
              Mul(normal.dir, Dot(vector.num, normal.dir))),
          vector.den * LengthSq(normal.dir))

\* the final safety clamp
safety_clamp(displacement, normal) ==
    IF moves_into(displacement, normal) THEN block(displacement, normal)
    ELSE displacement

\* Step 6 of the solver
slope_stabilization(displacement, grounded, normal, delta_secs) ==
    IF grounded /\ is_stable_slope(normal)
    THEN safety_clamp(
            PtSub(displacement,
                  tangential(PtScale(Neg(Y), FracMul(GRAVITY, delta_secs)), normal)),
            normal)
    ELSE displacement

\* what check_collisions leaves in the entity's PhysicsData
resolved(data, contacts, ground_normal, height, delta_secs) ==
    grounded_state(
        [data EXCEPT !.displacement =
            slope_stabilization(contacts[Len(contacts)].after,
                                contacts[Len(contacts)].grounded,
                                ground_normal, delta_secs)],
        contacts[Len(contacts)].grounded, height, delta_secs)

\* the locals of check_collisions for one entity
check_collisions_locals(data, displacement, collisions, own, current_position, query, delta_secs) ==
    [kind |-> "tick",
     entered |-> data,
     current_position |-> current_position,
     collisions |-> collisions,
     contacts |-> resolve_collisions(collisions, 1, <<before_loop(displacement)>>,
                                     own, current_position, query, delta_secs),
     ground_normal |-> ground_normal_of(collisions, 1, Normalize(Zero))]

----------------------------------------------------------------------------
(* The world the entity moves in: a ground box with its top at height 0,   *)
(* a step box whose top is STEP_UP_HEIGHT / 2 above it and a tall wall     *)
(* that faces the ground's edge across a gap.                              *)

MaxFrames == 3

Ground == [kind |-> "Aabb", size |-> <<40, 10, 20>>, position |-> <<0, -5, 0>>]
Step == [kind |-> "Aabb", size |-> <<10, 10, 20>>, position |-> <<15, 0, 0>>]
Wall == [kind |-> "Aabb", size |-> <<10, 40, 20>>, position |-> <<-30, 20, 0>>]
Statics == {Ground, Step, Wall}

\* every order in which query2 may hand out the static colliders
QueryOrders == {q \in [1..3 -> Statics] : \A i, j \in 1..3 : q[i] = q[j] => i = j}

StartPositions ==
    {<<0, 0, 0>>, <<4, 0, 0>>, <<5, 0, 0>>, <<7, 0, 0>>, <<-19, 0, 0>>, <<-20, 0, 0>>,
     <<0, 2, 0>>, <<0, 3, 0>>, <<0, 0, 10>>, <<0, -1, 13>>, <<0, -2, 14>>, <<5, -1, 13>>,
     <<-23, -1, 0>>}

Intents == {Zero, X, Neg(X), Z, Mul(Y, 3), <<1, 3, 0>>}

NoLocals == [kind |-> "none"]

InitMovement ==
    /\ vertices = <<>>
    /\ hull = NoHull
    /\ segs = NoSegs
    /\ closest = NoClosest
    /\ other = NoCollider
    /\ result = NoResult
    /\ time = [delta_secs |-> Frac(3, 100), frames |-> 0]
    /\ \E start \in StartPositions :
        /\ world_position = Pt(start)
        /\ collider = Collider_vertical_capsule(5, 14, start)
    /\ physics = PhysicsData_kinematic(Pt(Zero))
    /\ controller = [intent |-> Zero, max_speed |-> Frac(100, 3)]
    /\ colliders \in QueryOrders
    /\ pc = "input"
    /\ locals = NoLocals
    /\ NoGame

\* upstream input handling writes controller.intent
MovementInput ==
    /\ pc = "input"
    /\ time.frames < MaxFrames
    /\ \E intent \in Intents : controller' = [controller EXCEPT !.intent = intent]
    /\ pc' = "update_collider_position"
    /\ UNCHANGED <<vertices, hull, segs, closest, collider, other, result>>
    /\ UNCHANGED <<time, world_position, physics, colliders, locals>>
    /\ UNCHANGED game_vars

\* PreUpdate.  Colliders are placed on whole units only.
UpdateColliderPosition ==
    /\ pc = "update_collider_position"
    /\ world_position.den = 1
    /\ collider' = [collider EXCEPT !.position = world_position.num]
    /\ pc' = "set_intended_velocity"
    /\ UNCHANGED <<vertices, hull, segs, closest, other, result>>
    /\ UNCHANGED <<time, world_position, physics, controller, colliders, locals>>
    /\ UNCHANGED game_vars

SetIntendedVelocity ==
    /\ pc = "set_intended_velocity"
    /\ physics' = [physics EXCEPT !.displacement =
                      set_intended_velocity_of(@, intended(controller, time.delta_secs))]
    /\ pc' = "check_collisions"
    /\ UNCHANGED <<vertices, hull, segs, closest, collider, other, result>>
    /\ UNCHANGED <<time, world_position, controller, colliders, locals>>
    /\ UNCHANGED game_vars

CheckCollisions ==
    /\ pc = "check_collisions"
    /\ locals' = check_collisions_locals(
                    physics,
                    apply_gravity(physics.displacement, time.delta_secs),
                    collisions_of(collider, query2(collider, colliders), 1),
                    collider, world_position.num, query2(collider, colliders),
                    time.delta_secs)
    /\ physics' = resolved(physics, locals'.contacts, locals'.ground_normal,
                           PtY(world_position), time.delta_secs)
    /\ pc' = "apply_movement"
    /\ UNCHANGED <<vertices, hull, segs, closest, collider, other, result>>
    /\ UNCHANGED <<time, world_position, controller, colliders>>
    /\ UNCHANGED game_vars

ApplyMovement ==
    /\ pc = "apply_movement"
    /\ world_position' = PtAdd(world_position, physics.displacement)
    /\ time' = [time EXCEPT !.frames = @ + 1]
    /\ pc' = "input"
    /\ UNCHANGED <<vertices, hull, segs, closest, collider, other, result>>
    /\ UNCHANGED <<physics, controller, colliders, locals>>
    /\ UNCHANGED game_vars

NextMovement ==
    \/ MovementInput
    \/ UpdateColliderPosition
    \/ SetIntendedVelocity
    \/ CheckCollisions
    \/ ApplyMovement

SpecMovement == InitMovement /\ [][NextMovement]_vars

----------------------------------------------------------------------------
(* Claims about the movement solver *)

\* the y component of the unit normal exceeds 7/10
GroundLike(normal) ==
    /\ normal.dir[2] > 0
    /\ 100 * normal.dir[2] * normal.dir[2] > 49 * LengthSq(normal.dir)

\* a ground-like contact is among the collisions of the tick
FoundGround(tick) ==
    \E i \in 1..Len(tick.collisions) : GroundLike(tick.collisions[i].normal)

TopOf(box) == box.position[2] + box.size[2] \div 2

\* the axis of the capsule at p is further than its radius from the box
\* in x or in z
ClearOf(p, box) ==
    \/ 2 * Abs(p[1] - box.position[1]) > box.size[1] + 2 * collider.radius
    \/ 2 * Abs(p[3] - box.position[3]) > box.size[3] + 2 * collider.radius

\* the feet of the capsule at p are on top of Ground, its axis is above
\* Ground, and Step and Wall are out of reach
StandsOnGroundOnly(p) ==
    /\ p[2] = TopOf(Ground)
    /\ 2 * Abs(p[1] - Ground.position[1]) <= Ground.size[1]
    /\ 2 * Abs(p[3] - Ground.position[3]) <= Ground.size[3]
    /\ ClearOf(p, Step)
    /\ ClearOf(p, Wall)

\* the tick that has just ended began with the entity standing on Ground
\* alone and had zero intent
RestingTick ==
    /\ pc = "input"
    /\ locals.kind = "tick"
    /\ controller.intent = Zero
    /\ StandsOnGroundOnly(locals.current_position)

FreeAbove(p, k, box) ==
    check_collision([collider EXCEPT !.position = Add(p, Mul(Y, k))], box).kind # "Some"

\* the tick that has just ended began with the entity grounded, its feet
\* on Ground and STEP_UP_HEIGHT / 2 below the top of Step, in contact with
\* Step, and had the intent to move towards Step
StepTick ==
    /\ pc = "input"
    /\ locals.kind = "tick"
    /\ locals.entered.grounded
    /\ locals.current_position[2] = TopOf(Ground)
    /\ 2 * (TopOf(Step) - locals.current_position[2]) = STEP_UP_HEIGHT
    /\ ~FreeAbove(locals.current_position, 0, Step)
    /\ locals.current_position[1] < Step.position[1]
    /\ controller.intent = X

\* C15: a grounded entity moving horizontally into a box whose top is
\* step_height / 2 above its feet has, after one tick, advanced in the
\* intended direction and risen enough to clear the step.
C15_StepUp ==
    StepTick =>
        /\ FracLess(Frac(locals.current_position[1], 1), PtX(world_position))
        /\ \E k \in 1..10 :
            /\ FreeAbove(locals.current_position, k, Step)
            /\ ~FracLess(PtY(world_position), Frac(locals.current_position[2] + k, 1))

\* the angle between the normal and vertical is below 45 degrees
Within45(normal) ==
    normal.dir[2] > 0 /\ 2 * normal.dir[2] * normal.dir[2] > LengthSq(normal.dir)

\* check_collisions has just ended a grounded tick on a stable slope
SlopeTick ==
    /\ pc = "apply_movement"
    /\ physics.grounded
    /\ Within45(locals.ground_normal)

\* the displacement has no x and no z component
NoLateral(displacement) == displacement.num[1] = 0 /\ displacement.num[3] = 0

\* the intent points down the slope
Downhill(intent, normal) ==
    /\ intent[2] = 0
    /\ intent[1] * normal.dir[1] + intent[3] * normal.dir[3] > 0

OnlySlopeActs ==
    \A i \in 2..Len(locals.contacts) :
        locals.contacts[i].normal # locals.ground_normal =>
            locals.contacts[i].after = locals.contacts[i].before

\* the entity carried no vertical displacement into the tick
AtRest == locals.entered.displacement.num[2] = 0

IntoWall(i) ==
    /\ ~GroundLike(locals.contacts[i].normal)
    /\ Dot(locals.contacts[i].before.num, locals.contacts[i].normal.dir) < 0

\* C17: for a contact that is not ground-like and into which the
\* displacement projects negatively, step-up is attempted if and only if
\* the entity was grounded when the tick began, whatever the order in which
\* the contacts of the tick are iterated.
C17_StepUpByGroundedAtStart ==
    locals.kind = "tick" =>
        \A i \in 2..Len(locals.contacts) :
            IntoWall(i) =>
                (locals.contacts[i].step_up # "none" <=> locals.entered.grounded)

\* no collider other than the entity's own collides with the entity's
\* collider raised by k * STEP_UP_HEIGHT / 10 above its position of the tick
FreeAt(k) ==
    \A j \in 1..Len(colliders) :
        FreeAbove(locals.current_position, (k * STEP_UP_HEIGHT) \div 10, colliders[j])

\* the displacement a by its y component alone differs from b
SameLateral(a, b) == PtX(a) = PtX(b) /\ PtZ(a) = PtZ(b)

\* a is b without its component along the normal
Cancelled(a, b, normal) ==
    /\ Dot(a.num, normal.dir) = 0
    /\ Cross(PtDiffDir(a, b), normal.dir) = Zero

\* the greater of two fractions
FracMax(a, b) == IF FracLess(a, b) THEN b ELSE a

C19_BlockingResponse ==
    locals.kind = "tick" =>
        \A i \in 2..Len(locals.contacts) :
            locals.contacts[i].step_up # "found" =>
                /\ Dot(locals.contacts[i].before.num, locals.contacts[i].normal.dir) < 0 =>
                        Cancelled(locals.contacts[i].after, locals.contacts[i].before,
                                  locals.contacts[i].normal)
                /\ Dot(locals.contacts[i].before.num, locals.contacts[i].normal.dir) >= 0 =>
                        locals.contacts[i].after = locals.contacts[i].before

\* a displacement with a component along and one across a tilted normal
\* has been blocked
C19_Witness ==
    /\ locals.kind = "tick"
    /\ \E i \in 2..Len(locals.contacts) :
        /\ locals.contacts[i].step_up = "none"
        /\ Dot(locals.contacts[i].before.num, locals.contacts[i].normal.dir) < 0
        /\ locals.contacts[i].normal.dir[2] # 0
        /\ locals.contacts[i].normal.dir[3] # 0
        /\ locals.contacts[i].after.num # Zero

----------------------------------------------------------------------------
(* Claims about the capsule-box closest point, the box-box contact and     *)
(* split_face                                                              *)

\* twice the gap between the point and the box on axis k, times point.den
GapOnAxis(point, box, k) ==
    Max(0, 2 * Abs(point.num[k] - point.den * box.position[k]) - point.den * box.size[k])

\* the squared distance from a point [num, den] to a box
PtDistSqToBox(point, box) ==
    Frac(GapOnAxis(point, box, 1) * GapOnAxis(point, box, 1)
         + GapOnAxis(point, box, 2) * GapOnAxis(point, box, 2)
         + GapOnAxis(point, box, 3) * GapOnAxis(point, box, 3),
         4 * point.den * point.den)

\* the point lies on the segment from start to end
OnSegment(point, start, end) ==
    /\ Cross(Sub(point.num, Mul(start, point.den)), Sub(end, start)) = Zero
    /\ Dot(Sub(point.num, Mul(start, point.den)), Sub(end, start)) >= 0
    /\ Dot(Sub(point.num, Mul(start, point.den)), Sub(end, start))
           <= point.den * LengthSq(Sub(end, start))
    /\ start = end => point.num = Mul(start, point.den)

\* the points of the capsule's segment at t = 0, 1/4, 1/2, 3/4, 1
SegmentSamples(c) ==
    {PointAt(CapsuleStart(c), Sub(CapsuleEnd(c), CapsuleStart(c)), Frac(k, 4)) : k \in 0..4}

\* nearest is a point of the segment of capsule c and no sampled point of
\* the segment is closer to the box o
NearestIsMinimal(nearest, c, o) ==
    /\ OnSegment(nearest, CapsuleStart(c), CapsuleEnd(c))
    /\ \A sample \in SegmentSamples(c) :
            ~FracLess(PtDistSqToBox(sample, o), PtDistSqToBox(nearest, o))

\* a sampled point of the segment of capsule c is within the radius of box o
SampleWithinRadius(c, o) ==
    \E sample \in SegmentSamples(c) :
        ~FracLess(Frac(c.radius * c.radius, 1), PtDistSqToBox(sample, o))

\* the capsule c and the box o of the pair that is checked
CapsuleBoxClaim(c, o) ==
    c.kind = "Capsule" /\ o.kind = "Aabb" =>
        /\ NearestIsMinimal(
               closest_point_capsule_aabb(CapsuleStart(c), CapsuleEnd(c), BoxMin(o), BoxMax(o)),
               c, o)
        /\ SampleWithinRadius(c, o) =>
               /\ narrow_phase(c, o).kind = "Some"
               /\ narrow_phase(o, c).kind = "Some"

\* C21: closest_point_capsule_aabb returns a point of the capsule's segment
\* that is at least as close to the box as every other point of the
\* segment, and Box-Capsule and Capsule-Box report a contact whenever a
\* point of the segment is within the radius of the box.
C21_ClosestPointMinimizes ==
    CapsuleBoxClaim(collider, other) /\ CapsuleBoxClaim(other, collider)

\* size + other size - 2 * |centre delta| on axis k: twice the overlap of two
\* boxes on that axis
TwiceOverlap(c, o, k) ==
    c.size[k] + o.size[k] - 2 * Abs(c.position[k] - o.position[k])

\* Axis k has the least overlap of the three
LeastOverlap(c, o, k) ==
    \A j \in 1..3 : TwiceOverlap(c, o, k) <= TwiceOverlap(c, o, j)

\* n is the unit vector of axis k, pointing the way of delta (either way when
\* delta is zero)
SignedAxis(n, k, delta) ==
    /\ ~IsNaN(n)
    /\ \A j \in 1..3 : j # k => n.dir[j] = 0
    /\ Abs(n.dir[k]) = 1
    /\ n.dir[k] * delta >= 0

\* C22: the contact of two overlapping boxes has the least of the three
\* per-axis overlaps as its depth, the unit vector of an axis of least overlap
\* signed by the centre delta on that axis as its normal, and the midpoint of
\* the two centres as its position.
C22_BoxBoxContact ==
    (Checked /\ collider.kind = "Aabb" /\ other.kind = "Aabb"
             /\ result.kind = "Some") =>
        /\ \E k \in 1..3 :
              /\ LeastOverlap(collider, other, k)
              /\ 2 * result.depth.r = TwiceOverlap(collider, other, k)
              /\ result.depth.dsq = FracZero
              /\ SignedAxis(result.normal, k,
                            collider.position[k] - other.position[k])
        /\ result.position = Point(Add(collider.position, other.position), 2)

\* Two overlapping boxes of different sizes whose least overlap is on one
\* axis only, with a negative centre delta on it
C22_Witness ==
    /\ Checked /\ collider.kind = "Aabb" /\ other.kind = "Aabb"
    /\ result.kind = "Some"
    /\ collider.size # other.size
    /\ \E k \in 1..3 :
          /\ LeastOverlap(collider, other, k)
          /\ \A j \in 1..3 : j # k => ~LeastOverlap(collider, other, j)
          /\ collider.position[k] < other.position[k]
          /\ TwiceOverlap(collider, other, k) > 0

Quads == {pos_y, neg_y, pos_x, neg_x, pos_z, neg_z}

\* The number of distinct points among the four corners of a quad
DistinctCorners(vs, quad) == Cardinality({vs[quad[i] + 1] : i \in 1..4})

\* The number of faces the claim gives a quad
FacesFor(distinct) == IF distinct = 4 THEN 2 ELSE IF distinct = 3 THEN 1 ELSE 0

\* A face names three corners of the quad that are three different points
ThreeDistinct(vs, quad, face) ==
    /\ \A i \in 1..3 : \E j \in 1..4 : face.vertices[i] = quad[j]
    /\ Cardinality({vs[face.vertices[i] + 1] : i \in 1..3}) = 3

----------------------------------------------------------------------------
(* A world of several entities: two characters (WorldPosition,             *)
(* PhysicsData::Kinematic, MovementController and a vertical capsule made  *)
(* at the character's position), a tile (PhysicsData::Static and a         *)
(* collider, no WorldPosition) and a block that is Static and carries a    *)
(* WorldPosition, with a box made at that position.  One frame runs        *)
(* update_collider_position in PreUpdate and then the chain                *)
(* set_intended_velocity, check_collisions, apply_movement in Update.      *)

MaxTicks == 2

NoPosition == [kind |-> "none"]
NoController == [kind |-> "none"]
PhysicsData_static == [kind |-> "Static"]

HasPosition(ent) == "num" \in DOMAIN ent.world_position
IsKinematic(ent) == "displacement" \in DOMAIN ent.physics
HasController(ent) == "intent" \in DOMAIN ent.controller

\* character(name, position, .., Collider::vertical_capsule(r, h, position), ..)
character_bundle(position) ==
    [world_position |-> Pt(position),
     physics |-> PhysicsData_kinematic(Pt(Zero)),
     controller |-> [intent |-> Zero, max_speed |-> Frac(100, 3)],
     collider |-> Collider_vertical_capsule(5, 14, position)]

\* tile(..): tile_type.get_collision(world_coords) and PhysicsData::Static
tile_bundle(tile_collider) ==
    [world_position |-> NoPosition,
     physics |-> PhysicsData_static,
     controller |-> NoController,
     collider |-> tile_collider]

\* A Static entity with a WorldPosition and a box made at it
block_bundle(size, position) ==
    [world_position |-> Pt(position),
     physics |-> PhysicsData_static,
     controller |-> NoController,
     collider |-> Collider_aabb(size, position)]

\* update_collider_position: every entity with a Collider and a WorldPosition
update_collider_position(ents) ==
    [e \in DOMAIN ents |->
        IF HasPosition(ents[e])
        THEN [ents[e] EXCEPT !.collider.position = ents[e].world_position.num]
        ELSE ents[e]]

\* set_intended_velocity: every entity with a MovementController and a
\* PhysicsData, the Kinematic ones only
set_intended_velocity(ents, delta_secs) ==
    [e \in DOMAIN ents |->
        IF HasController(ents[e]) /\ IsKinematic(ents[e])
        THEN [ents[e] EXCEPT !.physics.displacement =
                set_intended_velocity_of(@, intended(ents[e].controller, delta_secs))]
        ELSE ents[e]]

\* query2 as the entity e meets it: every entity with a Collider, in the
\* order of the query, e itself marked 0
query2_of(ents, order, e) ==
    [i \in 1..Len(order) |->
        [entity |-> IF order[i] = e THEN 0 ELSE order[i],
         collider |-> ents[order[i]].collider]]

\* What the body of the for_each leaves in the entity's PhysicsData
check_collisions_resolved(ent, tick, delta_secs) ==
    resolved(ent.physics, tick.contacts, tick.ground_normal,
             PtY(ent.world_position), delta_secs)

check_collisions_entity(ent, query, delta_secs) ==
    check_collisions_resolved(
        ent,
        check_collisions_locals(
            ent.physics,
            apply_gravity(ent.physics.displacement, delta_secs),
            collisions_of(ent.collider, query, 1),
            ent.collider, ent.world_position.num, query, delta_secs),
        delta_secs)

\* One turn of the for_each that also moves the entity's collider
check_collisions_one_moving(ents, order, e, delta_secs) ==
    IF HasPosition(ents[e]) /\ IsKinematic(ents[e])
    THEN [ents EXCEPT ![e].physics =
                check_collisions_entity(ents[e], query2_of(ents, order, e),
                                        delta_secs),
                      ![e].collider.position = Add(@, <<0, 20, 0>>)]
    ELSE ents

\* One turn of the for_each of check_collisions, for the entity e
check_collisions_one(ents, order, e, delta_secs) ==
    IF HasPosition(ents[e]) /\ IsKinematic(ents[e])
    THEN [ents EXCEPT ![e].physics =
                check_collisions_entity(ents[e], query2_of(ents, order, e),
                                        delta_secs)]
    ELSE ents

\* check_collisions, the entities taken in the order of `iteration`
RECURSIVE check_collisions(_, _, _, _, _)
check_collisions(ents, order, iteration, i, delta_secs) ==
    IF i > Len(iteration) THEN ents
    ELSE check_collisions(
            check_collisions_one(ents, order, iteration[i], delta_secs),
            order, iteration, i + 1, delta_secs)

\* A commit that moves every entity with a WorldPosition, a Static one by
\* one unit
apply_movement_of_all(ents) ==
    [e \in DOMAIN ents |->
        IF HasPosition(ents[e])
        THEN [ents[e] EXCEPT !.world_position =
                PtAdd(@, IF IsKinematic(ents[e])
                         THEN ents[e].physics.displacement ELSE Pt(X))]
        ELSE ents[e]]

\* apply_movement: every entity with a PhysicsData and a WorldPosition
apply_movement(ents) ==
    [e \in DOMAIN ents |->
        IF HasPosition(ents[e]) /\ IsKinematic(ents[e])
        THEN [ents[e] EXCEPT !.world_position =
                PtAdd(@, ents[e].physics.displacement)]
        ELSE ents[e]]

EntityIds == 1..4
\* The orders in which a query hands out the entities
IterationOrders == {<<1, 2, 3, 4>>, <<4, 3, 2, 1>>}

CharacterStarts == {<<0, 0, 0>>, <<4, 0, 0>>, <<0, 3, 0>>}
NeighbourStarts == {<<-8, 0, 0>>, <<-10, 0, 0>>, <<2, 0, 6>>}
CharacterIntents == {Zero, X, Neg(X)}
TickDelta == Frac(3, 100)

InitEntities ==
    /\ vertices = <<>>
    /\ hull = NoHull
    /\ segs = NoSegs
    /\ closest = NoClosest
    /\ collider = NoCollider
    /\ other = NoCollider
    /\ result = NoResult
    /\ NoMovement
    /\ \E a \in CharacterStarts, b \in NeighbourStarts :
          entities = <<character_bundle(a), character_bundle(b), tile_bundle(Ground),
                       block_bundle(<<10, 10, 20>>, <<15, 0, 0>>)>>
    /\ \E order \in IterationOrders :
          schedule = [system |-> "input", ticks |-> 0, query2 |-> order]
    /\ NoCharacter

\* upstream input handling writes every controller's intent
EntitiesInput ==
    /\ schedule.system = "input"
    /\ schedule.ticks < MaxTicks
    /\ \E a \in CharacterIntents, b \in CharacterIntents :
          entities' = [entities EXCEPT ![1].controller.intent = a,
                                       ![2].controller.intent = b]
    /\ schedule' = [schedule EXCEPT !.system = "update_collider_position"]
    /\ UNCHANGED collision_vars
    /\ UNCHANGED movement_vars
    /\ UNCHANGED character_vars

\* PreUpdate.  Colliders are placed on whole units only.
EntitiesUpdateColliderPosition ==
    /\ schedule.system = "update_collider_position"
    /\ \A e \in EntityIds :
          HasPosition(entities[e]) => entities[e].world_position.den = 1
    /\ entities' = update_collider_position(entities)
    /\ schedule' = [schedule EXCEPT !.system = "set_intended_velocity"]
    /\ UNCHANGED collision_vars
    /\ UNCHANGED movement_vars
    /\ UNCHANGED character_vars

EntitiesSetIntendedVelocity ==
    /\ schedule.system = "set_intended_velocity"
    /\ entities' = set_intended_velocity(entities, TickDelta)
    /\ schedule' = [schedule EXCEPT !.system = "check_collisions"]
    /\ UNCHANGED collision_vars
    /\ UNCHANGED movement_vars
    /\ UNCHANGED character_vars

\* check_collisions, with the entities in any order the query may hand them out
EntitiesCheckCollisions ==
    /\ schedule.system = "check_collisions"
    /\ \E iteration \in IterationOrders :
          entities' = check_collisions(entities, schedule.query2, iteration, 1,
                                       TickDelta)
    /\ schedule' = [schedule EXCEPT !.system = "apply_movement"]
    /\ UNCHANGED collision_vars
    /\ UNCHANGED movement_vars
    /\ UNCHANGED character_vars

EntitiesApplyMovement ==
    /\ schedule.system = "apply_movement"
    /\ entities' = apply_movement(entities)
    /\ schedule' = [schedule EXCEPT !.system = "input", !.ticks = @ + 1]
    /\ UNCHANGED collision_vars
    /\ UNCHANGED movement_vars
    /\ UNCHANGED character_vars

NextEntities ==
    \/ EntitiesInput
    \/ EntitiesUpdateColliderPosition
    \/ EntitiesSetIntendedVelocity
    \/ EntitiesCheckCollisions
    \/ EntitiesApplyMovement

SpecEntities == InitEntities /\ [][NextEntities]_vars

----------------------------------------------------------------------------
(* Claims about the world of several entities *)

\* What check_collisions leaves of the entity e when every collider is where
\* the entities `ents` have it: only the PhysicsData of a Kinematic entity
\* with a WorldPosition is new
ResolvedAlone(ents, order, e) ==
    IF HasPosition(ents[e]) /\ IsKinematic(ents[e])
    THEN [ents[e] EXCEPT !.physics =
            check_collisions_entity(ents[e], query2_of(ents, order, e), TickDelta)]
    ELSE ents[e]

ChecksCollisions == schedule.system = "check_collisions"

\* C24: check_collisions resolves every Kinematic entity against the
\* colliders as they are when the system starts and writes nothing but that
\* entity's PhysicsData, so its result is the same for every order of
\* iteration; a WorldPosition changes in apply_movement only, by the resolved
\* displacement.
C24_IndependentOfIterationOrder ==
    [][/\ ChecksCollisions =>
            /\ \A e \in EntityIds :
                  entities'[e] = ResolvedAlone(entities, schedule.query2, e)
            /\ \A iteration \in IterationOrders :
                  entities' = check_collisions(entities, schedule.query2,
                                               iteration, 1, TickDelta)
       /\ \A e \in EntityIds :
            entities'[e].world_position # entities[e].world_position =>
                /\ schedule.system = "apply_movement"
                /\ IsKinematic(entities[e])
                /\ entities'[e].world_position
                      = PtAdd(entities[e].world_position,
                              entities[e].physics.displacement)]_vars

\* check_collisions has run for two characters whose capsules touch and who
\* both were sent moving
C24_Witness ==
    /\ schedule.system = "apply_movement"
    /\ check_collision(entities[1].collider, entities[2].collider).kind = "Some"
    /\ entities[1].controller.intent # Zero
    /\ entities[2].controller.intent # Zero
    /\ entities[1].physics # entities[2].physics

AppliesMovement == schedule.system = "apply_movement"

\* C25: apply_movement gives every Kinematic entity the position old position
\* + displacement and leaves a Static entity's position alone, and no step of
\* a frame changes the position or the kind of a Static entity.
C25_CommitAndStatics ==
    [][/\ AppliesMovement =>
            \A e \in EntityIds :
                HasPosition(entities[e]) =>
                    entities'[e].world_position
                        = IF IsKinematic(entities[e])
                          THEN PtAdd(entities[e].world_position,
                                     entities[e].physics.displacement)
                          ELSE entities[e].world_position
       /\ \A e \in EntityIds :
            ~IsKinematic(entities[e]) =>
                /\ entities'[e].world_position = entities[e].world_position
                /\ entities'[e].physics = PhysicsData_static]_vars

\* apply_movement has just moved a character sideways, in a world with a
\* Static entity that has a position
C25_Witness ==
    /\ schedule.system = "input" /\ schedule.ticks > 0
    /\ \E e \in EntityIds :
          /\ IsKinematic(entities[e])
          /\ PtX(entities[e].physics.displacement) # FracZero
    /\ \E e \in EntityIds :
          ~IsKinematic(entities[e]) /\ HasPosition(entities[e])

\* The entity's collider is the one its constructor makes at the entity's
\* WorldPosition
MadeAtPosition(ent) ==
    /\ HasPosition(ent) /\ ent.world_position.den = 1
    /\ \/ /\ ent.collider.kind = "Aabb"
          /\ ent.collider = Collider_aabb(ent.collider.size, ent.world_position.num)
       \/ /\ ent.collider.kind = "Capsule"
          /\ ent.collider = Collider_vertical_capsule(
                                ent.collider.radius,
                                ent.collider.end[2] - ent.collider.start[2]
                                    + 2 * ent.collider.radius,
                                ent.world_position.num)

\* C26: update_collider_position leaves a collider where Collider::aabb or
\* Collider::vertical_capsule put it, when the constructor was given the
\* entity's WorldPosition.
C26_RefreshKeepsPlacement ==
    [][schedule.system = "update_collider_position" =>
            \A e \in EntityIds :
                MadeAtPosition(entities[e]) =>
                    entities'[e].collider = entities[e].collider]_vars

----------------------------------------------------------------------------
(* Health and on_health_event.  usize is modelled with UsizeBits bits: a   *)
(* sum or difference out of range wraps around and is recorded as an       *)
(* overflow (a panic in a debug build, a wrapped value in a release        *)
(* build).  The model also keeps the event handled last and the current    *)
(* health it met.                                                          *)

UsizeBits == 3
UsizeMax == 2 ^ UsizeBits - 1
Usize == 0..UsizeMax

\* usize: a + b and a - b
usize_add(a, b) == [value |-> (a + b) % (UsizeMax + 1), overflow |-> a + b > UsizeMax]
usize_sub(a, b) == [value |-> (a - b) % (UsizeMax + 1), overflow |-> b > a]
\* Ord::clamp, which panics when min > max
usize_clamp(x, min, max) ==
    [value |-> Clamp(x, min, max), overflow |-> min > max]

\* Health::new(max)
Health_new(max) == [max |-> max, current |-> max]

\* Health::with_current(max, current)
Health_with_current(max, current) ==
    [max |-> max, current |-> usize_clamp(current, 0, max).value]

NoEvent == [type |-> "none"]
HealthEventTypes ==
    {[type |-> "Heal", amount |-> a] : a \in Usize}
    \cup {[type |-> "Damage", amount |-> a, damage_type |-> d] :
             a \in Usize, d \in {"Generic", "Fall"}}
    \cup {[type |-> "Set", amount |-> a] : a \in Usize}
    \cup {[type |-> "FullHeal"], [type |-> "InstantDeath"]}

\* health.current with a difference or sum written to it
set_current(h, r) ==
    [h EXCEPT !.current = r.value, !.overflow = @ \/ r.overflow]

\* A heal that is not capped by what is missing
heal_uncapped(h, amount) ==
    set_current(h, usize_add(h.current, amount))

\* health.current += amount.min(health.max - health.current)
heal(h, amount) ==
    set_current(
        [h EXCEPT !.overflow = @ \/ usize_sub(h.max, h.current).overflow],
        usize_add(h.current, Min(amount, usize_sub(h.max, h.current).value)))

\* health.current -= amount.min(health.current)
damage(h, amount) ==
    set_current(h, usize_sub(h.current, Min(amount, h.current)))

on_health_event(h, event_type) ==
    CASE event_type.type = "Heal" -> heal(h, event_type.amount)
      [] event_type.type = "Damage" -> damage(h, event_type.amount)
      [] event_type.type = "Set" ->
            set_current(h, usize_clamp(event_type.amount, 0, h.max))
      [] event_type.type = "FullHeal" -> [h EXCEPT !.current = h.max]
      [] event_type.type = "InstantDeath" -> [h EXCEPT !.current = 0]

InitHealth ==
    /\ NoCollision
    /\ NoMovement
    /\ NoEntities
    /\ NoStamina
    /\ NoPlayer
    /\ \E max \in Usize, current \in Usize :
          \E made \in {Health_new(max), Health_with_current(max, current)} :
              health = [max |-> made.max, current |-> made.current,
                        overflow |-> FALSE, event |-> NoEvent,
                        handled |-> NoEvent, before |-> made.current]

\* commands.trigger(HealthEvent::new(entity, event_type))
TriggerHealthEvent ==
    /\ health.event = NoEvent
    /\ ~health.overflow
    /\ \E event_type \in HealthEventTypes :
          health' = [health EXCEPT !.event = event_type]
    /\ UNCHANGED collision_vars
    /\ UNCHANGED movement_vars
    /\ UNCHANGED entity_vars
    /\ UNCHANGED <<stamina, player>>

\* The observer on_health_event
OnHealthEvent ==
    /\ health.event # NoEvent
    /\ health' = [on_health_event(health, health.event) EXCEPT
                      !.event = NoEvent,
                      !.handled = health.event,
                      !.before = health.current]
    /\ UNCHANGED collision_vars
    /\ UNCHANGED movement_vars
    /\ UNCHANGED entity_vars
    /\ UNCHANGED <<stamina, player>>

NextHealth ==
    \/ TriggerHealthEvent
    \/ OnHealthEvent

SpecHealth == InitHealth /\ [][NextHealth]_vars

\* The current health the claim gives after an event, in whole numbers
C27_After(h, e) ==
    CASE e.type = "Heal" -> h.current + Min(e.amount, h.max - h.current)
      [] e.type = "Damage" -> h.current - Min(e.amount, h.current)
      [] e.type = "Set" -> Min(e.amount, h.max)
      [] e.type = "FullHeal" -> h.max
      [] e.type = "InstantDeath" -> 0

\* C27: before and after every HealthEvent 0 <= current <= max, no sum or
\* difference of the handler leaves the range of usize, max stays what it
\* was, and current becomes what the claim says for the event's type.
C27_HealthInRange ==
    [][health.event # NoEvent =>
            /\ health.current \in 0..health.max
            /\ health'.current \in 0..health'.max
            /\ ~health'.overflow
            /\ health'.max = health.max
            /\ health'.current = C27_After(health, health.event)]_vars

\* A heal of more than what was missing has been handled: the Health was
\* below its maximum when the event arrived and is full now
C27_Witness ==
    /\ health.handled.type = "Heal"
    /\ health.before < health.max
    /\ health.handled.amount > health.max - health.before
    /\ health.current = health.max /\ ~health.overflow

----------------------------------------------------------------------------
(* Stamina, on_stamina_event, update_stamina_timer and update_stamina.     *)
(* Time is counted in units of 0.05 s, so the regen interval of 0.1 s is   *)
(* two units.  usize and isize have UsizeBits bits; regen_per_second is    *)
(* kept as the number it is, and regen_rate is what `as usize` leaves of   *)
(* regen_per_second * 0.1.  A frame runs update_stamina_timer (TickTimers),*)
(* the input systems, whose commands may trigger a StaminaEvent, and       *)
(* update_stamina (Update).  The model also keeps the delay that the last  *)
(* event started and the time since then.                                  *)

MaxEvents == 2
MaxRegenDelay == 1
regen_interval == 2

IsizeMax == 2 ^ (UsizeBits - 1) - 1
\* usize as isize
as_isize(x) == IF x > IsizeMax THEN x - (UsizeMax + 1) ELSE x
\* isize as usize
as_usize(i) == i % (UsizeMax + 1)
\* isize: a - b
isize_sub(a, b) ==
    [value |-> ((a - b + IsizeMax + 1) % (UsizeMax + 1)) - (IsizeMax + 1),
     overflow |-> a - b > IsizeMax \/ a - b < -(IsizeMax + 1)]

None_timer == [mode |-> "None"]

\* Timer::from_seconds(duration, mode)
Timer_from_seconds(duration, mode) ==
    [mode |-> mode, duration |-> duration, elapsed |-> 0, finished |-> FALSE]

\* Timer::tick(delta): a finished Once timer stays as it is, a Repeating timer
\* keeps the remainder of the elapsed time; is_finished() is `finished`
Timer_tick(timer, delta) ==
    IF timer.mode = "Once" /\ timer.finished THEN timer
    ELSE IF timer.elapsed + delta < timer.duration
    THEN [timer EXCEPT !.elapsed = @ + delta, !.finished = FALSE]
    ELSE IF timer.mode = "Once" \/ timer.duration = 0
    THEN [timer EXCEPT !.elapsed = timer.duration, !.finished = TRUE]
    ELSE [timer EXCEPT !.elapsed = (@ + delta) % timer.duration,
                       !.finished = TRUE]

\* (regen_per_second as f32 * regen_interval).max(0.0) as usize, with
\* regen_interval = 0.1: the fraction is cut off
regen_rate_of(regen_per_second) == regen_per_second \div 10

\* Stamina::new(max, regen_per_second, regen_delay)
Stamina_new(max, regen_per_second, regen_delay) ==
    [max |-> max,
     current |-> max,
     regen_rate |-> regen_rate_of(regen_per_second),
     regen_delay |-> regen_delay,
     regen_timer |-> Timer_from_seconds(regen_interval, "Repeating"),
     regen_delay_timer |-> None_timer]

\* The delay that an event starts
started_delay(st, current) ==
    IF current > 0 THEN st.regen_delay ELSE st.regen_delay * 2

\* (stamina.current as isize - event.cost as isize).max(0) as usize
reduced(current, cost) ==
    as_usize(Max(isize_sub(as_isize(current), as_isize(cost)).value, 0))

on_stamina_event(st, cost) ==
    [st EXCEPT
        !.current = reduced(st.current, cost),
        !.overflow = @ \/ isize_sub(as_isize(st.current), as_isize(cost)).overflow,
        !.regen_delay_timer =
            Timer_from_seconds(started_delay(st, reduced(st.current, cost)), "Once")]

\* regen_delay_timer after its tick: None once it is finished
ticked_delay(timer) == IF timer.finished THEN None_timer ELSE timer

update_stamina_timer(st, delta) ==
    [st EXCEPT
        !.regen_timer = Timer_tick(@, delta),
        !.regen_delay_timer =
            IF @ = None_timer THEN @ ELSE ticked_delay(Timer_tick(@, delta))]

update_stamina(st) ==
    IF st.regen_delay_timer # None_timer THEN st
    ELSE IF st.regen_timer.finished
    THEN [st EXCEPT
            !.current = Min(usize_add(st.current, st.regen_rate).value, st.max),
            !.overflow = @ \/ usize_add(st.current, st.regen_rate).overflow]
    ELSE st

StaminaMaxes == {2, UsizeMax}
RegenPerSecond == {5, 10, 25}
RegenDelays == 0..MaxRegenDelay
Deltas == {1, 3}
NoCost == [kind |-> "none"]
\* StaminaEvent::new(entity, cost)
StaminaEvent_new(cost) == [kind |-> "StaminaEvent", cost |-> cost]
\* the longest time since an event that the model tells apart
SinceCap == 2 * MaxRegenDelay

\* The component, the system that runs next, the StaminaEvent that the
\* commands hold, and what the last event did
stamina_frame(st) ==
    [max |-> st.max, current |-> st.current, regen_rate |-> st.regen_rate,
     regen_delay |-> st.regen_delay, regen_timer |-> st.regen_timer,
     regen_delay_timer |-> st.regen_delay_timer,
     system |-> "update_stamina_timer", event |-> NoCost, events |-> 0,
     overflow |-> FALSE,
     delay |-> 0, since |-> SinceCap]

InitStamina ==
    /\ NoCollision
    /\ NoMovement
    /\ NoEntities
    /\ NoHealth
    /\ NoPlayer
    /\ \E max \in StaminaMaxes, regen_per_second \in RegenPerSecond,
          regen_delay \in RegenDelays :
          stamina = stamina_frame(Stamina_new(max, regen_per_second, regen_delay))

UnchangedByStamina ==
    /\ UNCHANGED collision_vars
    /\ UNCHANGED movement_vars
    /\ UNCHANGED entity_vars
    /\ UNCHANGED <<health, player>>

\* TickTimers: update_stamina_timer with the frame's time.delta()
UpdateStaminaTimer ==
    /\ stamina.system = "update_stamina_timer"
    /\ \E delta \in Deltas :
          stamina' = [update_stamina_timer(stamina, delta) EXCEPT
                         !.system = "record_input",
                         !.since = Min(@ + delta, SinceCap)]
    /\ UnchangedByStamina

\* RecordInput: the input systems trigger a StaminaEvent or none
StaminaRecordInput ==
    /\ stamina.system = "record_input"
    /\ \/ stamina' = [stamina EXCEPT !.system = "update_stamina"]
       \/ /\ stamina.events < MaxEvents
          /\ \E cost \in Usize :
                stamina' = [stamina EXCEPT !.system = "on_stamina_event",
                                           !.event = StaminaEvent_new(cost),
                                           !.events = @ + 1]
    /\ UnchangedByStamina

\* The observer on_stamina_event
OnStaminaEvent ==
    /\ stamina.system = "on_stamina_event"
    /\ stamina' = [on_stamina_event(stamina, stamina.event.cost) EXCEPT
                      !.system = "update_stamina",
                      !.event = NoCost,
                      !.delay = started_delay(stamina,
                                              reduced(stamina.current,
                                                      stamina.event.cost)),
                      !.since = 0]
    /\ UnchangedByStamina

\* Update: update_stamina
UpdateStamina ==
    /\ stamina.system = "update_stamina"
    /\ stamina' = [update_stamina(stamina) EXCEPT !.system = "update_stamina_timer"]
    /\ UnchangedByStamina

NextStamina ==
    \/ UpdateStaminaTimer
    \/ StaminaRecordInput
    \/ OnStaminaEvent
    \/ UpdateStamina

SpecStamina == InitStamina /\ [][NextStamina]_vars

\* Frames keep running: whichever system is next does run
SpecStaminaLive == SpecStamina /\ WF_vars(NextStamina)

HandlesStaminaEvent == stamina.system = "on_stamina_event"

\* What the claim gives a StaminaEvent: current less the cost but not below
\* 0, and a fresh delay of regen_delay, doubled when nothing is left
ReducedAndDelayed(before, cost, after) ==
    /\ after.current = Max(before.current - cost, 0)
    /\ ~after.overflow
    /\ after.regen_delay_timer =
          Timer_from_seconds(IF after.current = 0 THEN 2 * before.regen_delay
                             ELSE before.regen_delay, "Once")

\* Stamina rises in update_stamina only, and not before the delay that the
\* last event started has passed
RisesAfterDelay(before, after) ==
    after.current > before.current =>
        /\ before.system = "update_stamina"
        /\ before.since >= before.delay

\* C28: a StaminaEvent takes the cost off stamina.current, stopping at 0, and
\* starts a delay of regen_delay (twice that when current is left at 0) in
\* place of any running one; stamina.current does not rise before that delay
\* has passed, and never exceeds stamina.max.
C28_StaminaEvent ==
    [][/\ HandlesStaminaEvent =>
            ReducedAndDelayed(stamina, stamina.event.cost, stamina')
       /\ RisesAfterDelay(stamina, stamina')
       /\ stamina.current <= stamina.max
       /\ stamina'.current <= stamina'.max]_vars

\* The last StaminaEvent of the run has been handled
EventsOver == stamina.events = MaxEvents /\ stamina.event = NoCost

\* C29: once no further StaminaEvent occurs and the frames keep running,
\* stamina.current reaches stamina.max, whatever positive regen_per_second
\* the Stamina was made with.
C29_RegenReachesMax == EventsOver ~> (stamina.current = stamina.max)

----------------------------------------------------------------------------
(* The player's CharacterState.  Time is counted in units of 0.05 s and    *)
(* the intent in hundredths.  A frame brings the Time and the input        *)
(* resources up to date and then runs record_action_input and              *)
(* record_player_movement_input (RecordInput, chained, so the commands of  *)
(* each are applied before the next system runs) and update_state          *)
(* (Update).  Applying a command runs its observer, on_player_attack or    *)
(* on_state_change, and the commands which that observer issues, before    *)
(* the next command.  Facing, the particles of an attack and the Health    *)
(* and Stamina components feed nothing back into these systems and are     *)
(* left out; whether stamina.current > 0 is an input.                      *)

ATTACK_DURATION == 7
JUMP_VELOCITY == 275

Idle == [kind |-> "Idle"]
Walking == [kind |-> "Walking"]
Running == [kind |-> "Running"]
Attacking(time_left) == [kind |-> "Attacking", time_left |-> time_left]

\* CharacterState::is_movement
is_movement(cs) == cs.kind \in {"Idle", "Walking", "Running"}

NoState == [kind |-> "None"]
\* CharacterStateEvent::new(entity, new_state)
CharacterStateEvent_new(new_state) ==
    [kind |-> "CharacterStateEvent", new_state |-> new_state,
     prev_state |-> NoState, fail_on_prev_state_mismatch |-> TRUE]

PlayerAttackEvent == [kind |-> "PlayerAttackEvent"]
HealthEvent(event_type) == [kind |-> "HealthEvent", event_type |-> event_type]
AttackStaminaEvent == [kind |-> "StaminaEvent"]

\* on_state_change: the new state, or a panic on a mismatch with prev_state
on_state_change(cs, event) ==
    IF event.prev_state # NoState /\ event.fail_on_prev_state_mismatch
       /\ cs # event.prev_state
    THEN [kind |-> "Panic"]
    ELSE event.new_state

\* The commands of on_player_attack
on_player_attack ==
    <<AttackStaminaEvent, CharacterStateEvent_new(Attacking(ATTACK_DURATION))>>

\* Applying the commands in turn: the CharacterState they leave
RECURSIVE apply_deferred(_, _)
apply_deferred(cs, queue) ==
    IF queue = <<>> THEN cs
    ELSE IF Head(queue).kind = "PlayerAttackEvent"
    THEN apply_deferred(cs, on_player_attack \o Tail(queue))
    ELSE IF Head(queue).kind = "CharacterStateEvent"
    THEN apply_deferred(on_state_change(cs, Head(queue)), Tail(queue))
    ELSE apply_deferred(cs, Tail(queue))

\* update_state, for the one character
update_state(cs, delta) ==
    IF cs.kind = "Attacking"
    THEN IF cs.time_left - delta <= 0 THEN Idle
         ELSE Attacking(cs.time_left - delta)
    ELSE cs

\* The commands of record_action_input
record_action_input(cs, inp) ==
    IF ~inp.gamepad THEN <<>>
    ELSE (IF inp.west THEN <<HealthEvent("Damage")>> ELSE <<>>)
         \o (IF inp.north THEN <<HealthEvent("Heal")>> ELSE <<>>)
         \o (IF inp.right_trigger /\ is_movement(cs) /\ inp.has_stamina
             THEN <<PlayerAttackEvent>> ELSE <<>>)

\* The state that record_player_movement_input asks for
new_state(intent, toggle_run, running) ==
    IF LengthSq(intent) > 0
    THEN IF LengthSq(intent) < 70 * 70 THEN Walking
         ELSE IF toggle_run = running THEN Walking ELSE Running
    ELSE Idle

\* controller.running after record_player_movement_input
new_running(intent, toggle_run, running) ==
    IF LengthSq(intent) > 0 /\ LengthSq(intent) >= 70 * 70
    THEN IF toggle_run THEN ~running ELSE running
    ELSE FALSE

\* record_player_movement_input that lets an attacking player move
record_player_movement_input_always(p, inp) ==
    [p EXCEPT
        !.intent = IF inp.jumps THEN <<inp.intent[1], JUMP_VELOCITY, inp.intent[3]>>
                   ELSE inp.intent,
        !.running = new_running(inp.intent, inp.toggle_run, p.running),
        !.commands = <<CharacterStateEvent_new(
                          new_state(inp.intent, inp.toggle_run, p.running))>>]

\* record_player_movement_input: the controller and the commands it leaves
record_player_movement_input(p, inp) ==
    IF ~is_movement(p.state)
    THEN [p EXCEPT !.intent = Zero, !.commands = <<>>]
    ELSE [p EXCEPT
            !.intent = IF inp.jumps
                       THEN <<inp.intent[1], JUMP_VELOCITY, inp.intent[3]>>
                       ELSE inp.intent,
            !.running = new_running(inp.intent, inp.toggle_run, p.running),
            !.commands = <<CharacterStateEvent_new(
                              new_state(inp.intent, inp.toggle_run, p.running))>>]

PlayerDeltas == {2, 3}
\* intent after rotate_screen_space_to_movement: none, half a stick, a key
PlayerIntents == {Zero, <<50, 0, 0>>, <<0, 0, -100>>}

\* Time, ButtonInput, the gamepad and what they mean to the two systems
PlayerInputs ==
    [delta : PlayerDeltas, gamepad : BOOLEAN, right_trigger : BOOLEAN,
     west : BOOLEAN, north : BOOLEAN, has_stamina : BOOLEAN,
     intent : PlayerIntents, jumps : BOOLEAN, toggle_run : BOOLEAN]

NoInput == [kind |-> "none"]

InitPlayer ==
    /\ NoCollision
    /\ NoMovement
    /\ NoEntities
    /\ NoHealth
    /\ NoStamina
    /\ player = [state |-> Idle, intent |-> Zero, running |-> FALSE,
                 commands |-> <<>>, input |-> NoInput, system |-> "first"]

UnchangedByPlayer ==
    /\ UNCHANGED collision_vars
    /\ UNCHANGED movement_vars
    /\ UNCHANGED entity_vars
    /\ UNCHANGED <<health, stamina>>

\* First and PreUpdate: the frame's Time and input
PlayerFirst ==
    /\ player.system = "first"
    /\ \E inp \in PlayerInputs :
          player' = [player EXCEPT !.input = inp, !.system = "record_action_input"]
    /\ UnchangedByPlayer

RecordActionInput ==
    /\ player.system = "record_action_input"
    /\ player' = [player EXCEPT
                     !.commands = record_action_input(player.state, player.input),
                     !.system = "apply_action_commands"]
    /\ UnchangedByPlayer

\* The sync point after record_action_input
ApplyActionCommands ==
    /\ player.system = "apply_action_commands"
    /\ player' = [player EXCEPT
                     !.state = apply_deferred(player.state, player.commands),
                     !.commands = <<>>,
                     !.system = "record_player_movement_input"]
    /\ UnchangedByPlayer

RecordPlayerMovementInput ==
    /\ player.system = "record_player_movement_input"
    /\ player' = [record_player_movement_input(player, player.input) EXCEPT
                     !.system = "apply_movement_commands"]
    /\ UnchangedByPlayer

\* The sync point after record_player_movement_input
ApplyMovementCommands ==
    /\ player.system = "apply_movement_commands"
    /\ player' = [player EXCEPT
                     !.state = apply_deferred(player.state, player.commands),
                     !.commands = <<>>,
                     !.system = "update_state"]
    /\ UnchangedByPlayer

UpdateState ==
    /\ player.system = "update_state"
    /\ player' = [player EXCEPT
                     !.state = update_state(player.state, player.input.delta),
                     !.system = "first"]
    /\ UnchangedByPlayer

NextPlayer ==
    \/ PlayerFirst
    \/ RecordActionInput
    \/ ApplyActionCommands
    \/ RecordPlayerMovementInput
    \/ ApplyMovementCommands
    \/ UpdateState

SpecPlayer == InitPlayer /\ [][NextPlayer]_vars

IsAttacking == player.state.kind = "Attacking"

\* The commands hold no CharacterStateEvent and no PlayerAttackEvent
NoStateCommand(queue) ==
    \A i \in 1..Len(queue) :
        queue[i].kind \notin {"CharacterStateEvent", "PlayerAttackEvent"}

\* C30: an Attacking state changes in update_state only, where time_left
\* goes down by the frame's delta and the state turns Idle as soon as
\* time_left is no longer positive; while it lasts record_action_input
\* starts no attack, and record_player_movement_input sets the intent to zero
\* and triggers no CharacterStateEvent.
C30_AttackRunsToIdle ==
    [][IsAttacking =>
          /\ player.system = "update_state" =>
                player'.state
                    = IF player.state.time_left - player.input.delta > 0
                      THEN Attacking(player.state.time_left - player.input.delta)
                      ELSE Idle
          /\ player.system # "update_state" => player'.state = player.state
          /\ player.system = "record_action_input" =>
                NoStateCommand(player'.commands)
          /\ player.system = "record_player_movement_input" =>
                player'.intent = Zero /\ player'.commands = <<>>]_vars

\* In the middle of an attack, with the attack button pressed again and the
\* stick pushed, both input systems have run and left the intent at zero
C30_Witness ==
    /\ IsAttacking /\ player.state.time_left < ATTACK_DURATION
    /\ player.system = "apply_movement_commands"
    /\ player.input.gamepad /\ player.input.right_trigger
    /\ player.input.has_stamina
    /\ player.input.intent # Zero /\ player.input.jumps
    /\ player.intent = Zero /\ player.commands = <<>>

====
